---- MODULE Spec2Model ----
(***************************************************************************)
(* The on-chain TRO task state machine of programs/daollm                  *)
(* (src/programs/daollm/src/instructions/tro.rs).                          *)
(*                                                                         *)
(* Every account the handlers touch is a program derived address, so each  *)
(* kind of account is a function from its seeds to a record with an        *)
(* `exists` flag (FALSE: the account was never initialised).  A handler is *)
(* split into <handler>_result, the error code the account constraints and *)
(* the require! checks yield in the order the code evaluates them ("Ok"    *)
(* when all pass), and the action <handler>, which fires when the result   *)
(* is "Ok" and applies the handler's assignments.  A failing instruction   *)
(* aborts the transaction and leaves every account as it was, so it is a   *)
(* stuttering step.  u64 amounts stay far below 2^64 in the model, so the  *)
(* saturating u64 operations are plain + and -.                            *)
(***************************************************************************)
EXTENDS Integers, FiniteSets, Sequences, TLC

\* ---- program constants (tro.rs, state/tro.rs) ----
MIN_CHALLENGE_WINDOW == 1800
MAX_CHALLENGE_WINDOW == 604800
BPS_DENOMINATOR == 10000
INTENT_MAX_LEN == 512
HASH_MAX_LEN == 64
CID_MAX_LEN == 128
REASON_MAX_LEN == 256
EVIDENCE_MAX_LEN == 128
U8_MAX == 255
INITIAL_REPUTATION_BPS == 6000
HIGH_REPUTATION_BPS == 8000
LOW_REPUTATION_BPS == 4000
SIMILARITY_THRESHOLD_PCT == 95
ACCEPTANCE_THRESHOLD == 7000
UNKNOWN_CONFIDENCE_BPS == 5000

\* ---- bounds of the model ----
MaxTicks == 2
MaxVerifications == 2
MaxStake == 3
MaxSlashPool == 2
MaxCacheTicks == 2
MaxUploads == 2

\* ---- input domains ----
TaskIds == {1, 2}
LifecycleTasks == {1}
Keys == {"k1", "k2"}
Submitters == {"k1"}
EconomyAuthorities == {"k1"}
StakedOwners == {"k1", "k2"}
DefaultKey == "default"
TimeSteps == {1, MIN_CHALLENGE_WINDOW}
ChallengeWindows ==
    {MIN_CHALLENGE_WINDOW - 1, MIN_CHALLENGE_WINDOW, MAX_CHALLENGE_WINDOW, MAX_CHALLENGE_WINDOW + 1}
Criticalities == {"Standard", "MissionCritical"}
NodeStakes == {0, 1, 2}
TaskMinStakes == {2}
ChallengeStakes == {0, 1}
SlashAmounts == {0, 1}
DepositAmounts == {0, 1}
Scores == {BPS_DENOMINATOR, BPS_DENOMINATOR + 1}
MinVerifiers == {0, 1}
Resolutions == {"Pending", "Upheld", "Overturned"}
StringLens == {HASH_MAX_LEN, INTENT_MAX_LEN + 1}
RentLamports == {1}
StakeCeilings == {0, 2}
RegisterStakes == {1, 2}
WithdrawAmounts == {0, 1, 2}
WideStakeCeilings == {6}
RewardPools == {3}
TxKeys == {"k1"}
StoreQueries == {<<"A", "b">>, <<"b", "a">>}
LookupQueries == {<<"a", "b">>, <<"b">>}
RedisWrites == {"none", "Ok", "Err"}
Triplet(subject, predicate, object, confidence, source) ==
    [subject |-> subject, predicate |-> predicate, object |-> object,
     confidence |-> confidence, source |-> source]
AddedTriplets ==
    {Triplet("Paris", "located_in", "France", 9000, "HumanVerified"),
     Triplet("France", "located_in", "Europe", 9000, "HumanVerified"),
     Triplet("paris", "located_in", "Europe", 9000, "HumanVerified"),
     Triplet("Paris", "part_of", "France", 7000, "LLMExtraction"),
     Triplet("France", "part_of", "Europe", 9000, "HumanVerified")}
HashedTriplets == {t \in AddedTriplets : t.predicate = "located_in" \/ t.subject = "France"}
ClaimedTriplets ==
    AddedTriplets \cup {Triplet("Paris", "located_in", "Europe", 8000, "LLMExtraction"),
                        Triplet("Paris", "part_of", "Europe", 8000, "LLMExtraction")}
AddedEntities == {[id |-> <<"city", "paris">>, label |-> "Paris", aliases |-> {"Lutetia"}]}
StatusTiers == {"Local7B", "Local13B"}
ModelTiers == {"Local7B", "Local13B", "Local70B", "CloudAPI"}
\* Responses as the text fragments in them and their length in bytes.
Responses ==
    [fragments : SUBSET {"I'm not sure", "I DON'T KNOW", "Possibly", "It MIGHT BE so"},
     len : {49, 50}]
WorkflowClasses == {"ExpressLocal", "Standard", "HighPrecision", "MissionCritical"}
ComplexityScores == {0, 2499, 2500, 2501, 5000, 5001, 7500, 7501, 10000, 65535}
HALLUCINATION_INDICATORS ==
    {"I don't have access", "As an AI", "I cannot verify", "I'm not sure", "might be",
     "possibly", "I think", "In my opinion"}
VerificationConfigs ==
    [min_pass_score : {5000, 7000}, enable_hallucination_detection : BOOLEAN,
     hallucination_indicators : {HALLUCINATION_INDICATORS}]
DefaultVerificationConfig ==
    [min_pass_score |-> 7000, enable_hallucination_detection |-> TRUE,
     hallucination_indicators |-> HALLUCINATION_INDICATORS]
VerifiedTriplets == {Triplet("Paris", "located_in", "France", 9000, "HumanVerified")}
CrossValidationResult(agrees, confidence) == [agrees |-> agrees, confidence |-> confidence]
VerificationRequests ==
    [fragments : {{}, {"It MIGHT BE so"}, {"But Actually no", "100% Certain"}},
     sentences : {<<>>, <<<<"Paris", " located in ", "France">>>>,
                  <<<<"Paris", " located in ", "France">>, <<"France", " has ", "Paris">>>>},
     query_coverage : {0, 10000},
     response_len : {200},
     cross_results : {<<>>, <<CrossValidationResult(FALSE, 9000)>>}]
GZIP_MAGIC == <<31, 139>>
Payloads ==
    {<<>>, <<7>>, <<31, 139, 7>>, <<7, 7, 7, 7>>, <<7, 31, 139, 7>>, <<7, 7, 7, 7, 7>>,
     <<7, 7, 7, 7, 7, 7>>, <<7, 7, 7, 31, 31, 31>>, <<7, 7, 7, 7, 7, 7, 7>>}
IpfsConfigs ==
    [enable_compression : BOOLEAN, compression_threshold : {4},
     compression_method : {"None", "Gzip", "Brotli"}, chunk_size : {3, 4}, max_size : {6}]
DefaultIpfsConfig ==
    [enable_compression |-> TRUE, compression_threshold |-> 4, compression_method |-> "Gzip",
     chunk_size |-> 4, max_size |-> 6]
KgConfigs == [max_memory_entities : {1, 4}]
DefaultKgConfig == [max_memory_entities |-> 4]
InvalidateQueries == {<<"a", "B">>}
CacheCategories == {"TimeSensitive"}
CacheTimeSteps == {1, 60}
CacheConfigs == [enable_local_cache : BOOLEAN, redis : BOOLEAN, local_cache_size : {1, 2}]
DefaultCacheConfig == [enable_local_cache |-> TRUE, redis |-> FALSE, local_cache_size |-> 2]
SlashedOwners == {"k2"}
RewardRates == {0, BPS_DENOMINATOR}
QueueAmounts == {0, 1, 2}

VARIABLES now, ticks, task, node, inference_result, knowledge_graph, proof_registry,
          challenge, economy_config, reward_vault, stake_vault, hist, last

\* The semantic cache of the backend (services/semantic_cache_service.rs).
VARIABLES utc_now, cache_ticks, cache_config, local_cache, redis_store, lookup_result,
          store_result

program_vars == <<now, ticks, task, node, inference_result, knowledge_graph,
                  proof_registry, challenge, economy_config, reward_vault, stake_vault,
                  hist, last>>

cache_vars ==
    <<utc_now, cache_ticks, cache_config, local_cache, redis_store, lookup_result, store_result>>

\* The knowledge graph of the backend (services/knowledge_graph_service.rs).
VARIABLES kg_config, entities, label_index, triplets, add_triplet_pc, add_triplet_call,
          kg_last, fact_verification, merkle_roots

kg_vars ==
    <<kg_config, entities, label_index, triplets, add_triplet_pc, add_triplet_call, kg_last, fact_verification, merkle_roots>>

\* The model router of the backend (services/reasoning_service.rs).
VARIABLES model_status, routing_decision, confidence_estimate

router_vars == <<model_status, routing_decision, confidence_estimate>>

\* The verification service of the backend (services/verification_service.rs).
VARIABLES verification_config, verification_result

verification_vars == <<verification_config, verification_result>>

\* The IPFS service of the backend (services/ipfs_service.rs).
VARIABLES ipfs_config, ipfs, uploaded, retrieved

ipfs_vars == <<ipfs_config, ipfs, uploaded, retrieved>>

\* The proof service of the backend (services/zk_proof_service.rs).
VARIABLES zk_config, zk_cache, pending, proof_result

zk_vars == <<zk_config, zk_cache, pending, proof_result>>

backend_vars == <<cache_vars, kg_vars, router_vars, verification_vars, ipfs_vars, zk_vars>>

outside_cache == <<program_vars, kg_vars, router_vars, verification_vars, ipfs_vars, zk_vars>>

outside_kg == <<program_vars, cache_vars, router_vars, verification_vars, ipfs_vars, zk_vars>>

outside_router == <<program_vars, cache_vars, kg_vars, verification_vars, ipfs_vars, zk_vars>>

outside_verification == <<program_vars, cache_vars, router_vars, ipfs_vars, zk_vars>>

outside_ipfs == <<program_vars, cache_vars, kg_vars, router_vars, verification_vars, zk_vars>>

outside_zk == <<program_vars, cache_vars, kg_vars, router_vars, verification_vars, ipfs_vars>>

vars == <<program_vars, backend_vars>>

Max(a, b) == IF a >= b THEN a ELSE b
Min(a, b) == IF a <= b THEN a ELSE b

\* u8::saturating_add
SaturatingAddU8(a, b) == Min(a + b, U8_MAX)

\* ---- zeroed accounts ----
NoTask ==
    [exists |-> FALSE, submitter |-> DefaultKey, criticality |-> "Standard",
     stake_pool |-> 0, min_node_stake |-> 0, status |-> "Pending",
     requires_proof |-> FALSE, reasoning_result |-> 0, verification_score_bps |-> 0,
     challenge_period_end |-> 0, created_ts |-> 0, dispute_count |-> 0]

NoNode ==
    [exists |-> FALSE, owner |-> DefaultKey, stake_amount |-> 0,
     base_stake_requirement |-> 0, dynamic_min_stake |-> 0, active_task_id |-> 0,
     pending_slash_amount |-> 0, status |-> "Registered", total_inferences |-> 0,
     stake_vault_bump |-> FALSE, reputation_score_bps |-> 0,
     dynamic_multiplier_bps |-> 0, pending_rewards |-> 0]

NoChallenge ==
    [exists |-> FALSE, stake |-> 0, status |-> "Pending", outcome |-> "Pending"]

NoKnowledgeGraph == [exists |-> FALSE, authority |-> DefaultKey]

NoEconomy ==
    [exists |-> FALSE, authority |-> DefaultKey, slash_pool |-> 0,
     base_reward_rate_bps |-> 0, high_perf_multiplier_bps |-> 0,
     low_perf_penalty_bps |-> 0, stake_floor |-> 0, stake_ceiling |-> 0]

NoRewardVault ==
    [exists |-> FALSE, authority |-> DefaultKey, total_accrued |-> 0,
     total_distributed |-> 0, lamports |-> 0]

NoStakeVault == [exists |-> FALSE, owner |-> DefaultKey, total_stake |-> 0, lamports |-> 0]

NoHist ==
    [window |-> 0, was_verifying |-> FALSE, verifications |-> 0, claimed |-> {},
     stake_pool |-> 0, queued |-> 0, verified |-> FALSE]

NoOp == [op |-> "none", signer |-> DefaultKey, task |-> 0, result |-> "Ok"]

NoEntry ==
    [query |-> <<>>, query_hash |-> <<>>, category |-> "GeneralQA", created_at |-> 0,
     expires_at |-> 0]

NoLookup ==
    [query |-> <<>>, at |-> 0, hit |-> FALSE, entry |-> NoEntry, layer |-> "none",
     matching |-> {}]

NoStore == [query |-> <<>>, redis_write |-> "none", result |-> "Ok", in_local |-> FALSE]

NoTriplet == Triplet("", "", "", 0, "LLMExtraction")

NoAddTriplet == [triplet |-> NoTriplet, created |-> {}, result |-> "Ok"]

NoKgCall == [op |-> "none", triplet |-> NoTriplet, result |-> "Ok"]

NoMerkleRoots == [roots |-> {}, order |-> <<>>, reordered |-> FALSE]

NoFactVerification ==
    [claim |-> NoTriplet, supported |-> FALSE, confidence_bps |-> 0, supporting |-> <<>>,
     contradicting |-> {}, direct |-> {}, paths |-> {}, after_add |-> FALSE]

ProgramInit ==
    /\ now = 0
    /\ ticks = 0
    /\ task = [t \in TaskIds |-> NoTask]
    /\ node = [k \in Keys |-> NoNode]
    /\ inference_result = {}
    /\ knowledge_graph = NoKnowledgeGraph
    /\ proof_registry = {}
    /\ challenge = [tc \in TaskIds \X Keys |-> NoChallenge]
    /\ economy_config = NoEconomy
    /\ reward_vault = NoRewardVault
    /\ stake_vault = [k \in Keys |-> NoStakeVault]
    /\ hist = [t \in TaskIds |-> NoHist]
    /\ last = NoOp

\* SemanticCacheService::new with a given configuration: both layers empty.
CacheNew(config) ==
    /\ utc_now = 0
    /\ cache_ticks = 0
    /\ cache_config = config
    /\ local_cache = {}
    /\ redis_store = {}
    /\ lookup_result = NoLookup
    /\ store_result = NoStore

\* KnowledgeGraphService::new: an empty graph (the relation types are fixed).
KgNew(config) ==
    /\ kg_config = config
    /\ entities = {}
    /\ label_index = {}
    /\ triplets = {}
    /\ add_triplet_pc = "idle"
    /\ add_triplet_call = NoAddTriplet
    /\ kg_last = NoKgCall
    /\ fact_verification = NoFactVerification
    /\ merkle_roots = NoMerkleRoots

NoRoutingDecision ==
    [workflow |-> "Standard", complexity_score |-> 0, status |-> <<>>, tier |-> "none"]

NoResponse == [fragments |-> {}, len |-> 0]

NoConfidenceEstimate == [tier |-> "none", response |-> NoResponse, confidence |-> 0]

\* ModelRouter::new: no availability recorded for any tier.
RouterNew ==
    /\ model_status = [tier \in {} |-> TRUE]
    /\ routing_decision = NoRoutingDecision
    /\ confidence_estimate = NoConfidenceEstimate

NoVerificationResult ==
    [fragments |-> {}, passed |-> FALSE, final_score_bps |-> 0,
     hallucination_detected |-> FALSE, extracted_triplets |-> <<>>, kg_modified |-> FALSE]

\* VerificationService::new
VerificationNew(config) ==
    /\ verification_config = config
    /\ verification_result = NoVerificationResult

NoRetrieved ==
    [cid |-> [json |-> FALSE, bytes |-> <<>>, compression |-> "None", chunks |-> <<>>],
     result |-> "none", data |-> <<>>]

\* IPFSService::with_config, on a store that holds nothing yet.
IpfsNew(config) ==
    /\ ipfs_config = config
    /\ ipfs = {}
    /\ uploaded = {}
    /\ retrieved = NoRetrieved

\* ProofInput values: two tasks, one prompt, re-reasoned outputs and scores.
ProofInputs ==
    [task_id : TaskIds, prompt_hash : {<<7, 7>>}, model_id : {"llama"},
     output_hash : {<<1, 2>>, <<3, 4>>}, timestamp : {0, 300},
     verification_score : {7000, 9000}]

ZkConfigs == [enable_cache : BOOLEAN, cache_size : {1, 2}]

\* ZKProofConfig::default, with the cache size scaled down.
DefaultZkConfig == [enable_cache |-> TRUE, cache_size |-> 2]

NoProof ==
    [proof_id |-> <<>>, task_id |-> 0, proof_seed |-> <<>>, public_inputs |-> <<>>,
     proof_type |-> "", vk_hash |-> <<>>]

NoProofResult == [input |-> NoProof, proof |-> NoProof, cached |-> FALSE]

\* ZKProofService::new
ZkNew(config) ==
    /\ zk_config = config
    /\ zk_cache = {}
    /\ pending = {}
    /\ proof_result = NoProofResult

BackendNew ==
    /\ CacheNew(DefaultCacheConfig)
    /\ KgNew(DefaultKgConfig)
    /\ RouterNew
    /\ ZkNew(DefaultZkConfig)
    /\ VerificationNew(DefaultVerificationConfig)
    /\ IpfsNew(DefaultIpfsConfig)

Init == ProgramInit /\ BackendNew

\* Clock::get()?.unix_timestamp moves forward between transactions.
Tick(d) ==
    /\ ticks < MaxTicks
    /\ now' = now + d
    /\ ticks' = ticks + 1
    /\ last' = [op |-> "tick", signer |-> DefaultKey, task |-> 0, result |-> "Ok"]
    /\ UNCHANGED backend_vars
    /\ UNCHANGED <<task, node, inference_result, knowledge_graph, proof_registry,
                   challenge, economy_config, reward_vault, stake_vault, hist>>

enforce_len(len, limit) == len <= limit

\* ---- submit_intent_task ----
\* A build that asks a proof of High tasks only.
requires_proof_only_high(criticality) == criticality \in {"High"}

requires_proof_of(criticality) == criticality \in {"High", "MissionCritical"}

\* submit_intent_task without the challenge-window validation.
submit_intent_task_result_any_window(t, intent_len, challenge_window_secs) ==
    IF task[t].exists THEN "AccountAlreadyInUse"
    ELSE IF ~enforce_len(intent_len, INTENT_MAX_LEN) THEN "StringTooLong"
    ELSE "Ok"

submit_intent_task_result(t, intent_len, challenge_window_secs) ==
    IF task[t].exists THEN "AccountAlreadyInUse"
    ELSE IF ~enforce_len(intent_len, INTENT_MAX_LEN) THEN "StringTooLong"
    ELSE IF ~(challenge_window_secs >= MIN_CHALLENGE_WINDOW
              /\ challenge_window_secs <= MAX_CHALLENGE_WINDOW)
         THEN "InvalidChallengeWindow"
    ELSE "Ok"

submit_intent_task(submitter, t, intent_len, criticality, stake_pool, min_node_stake, challenge_window_secs) ==
    /\ submit_intent_task_result(t, intent_len, challenge_window_secs) = "Ok"
    /\ task' = [task EXCEPT ![t] =
                  [exists |-> TRUE, submitter |-> submitter, criticality |-> criticality,
                   stake_pool |-> stake_pool, min_node_stake |-> min_node_stake,
                   status |-> "Pending",
                   requires_proof |-> requires_proof_of(criticality),
                   reasoning_result |-> 0, verification_score_bps |-> 0,
                   challenge_period_end |-> now + challenge_window_secs,
                   created_ts |-> now, dispute_count |-> 0]]
    /\ hist' = [hist EXCEPT ![t] = [window |-> challenge_window_secs,
                                    was_verifying |-> FALSE, verifications |-> 0,
                                    claimed |-> {}, stake_pool |-> stake_pool,
                                    queued |-> 0, verified |-> FALSE]]
    /\ last' = [op |-> "submit_intent_task", signer |-> submitter, task |-> t, result |-> "Ok"]
    /\ UNCHANGED backend_vars
    /\ UNCHANGED <<now, ticks, node, inference_result, knowledge_graph, proof_registry,
                   challenge, economy_config, reward_vault, stake_vault>>

\* ---- register_reasoning_node ----
register_reasoning_node_result(owner, base_stake_requirement, initial_stake) ==
    IF node[owner].exists THEN "AccountAlreadyInUse"
    ELSE IF ~(initial_stake >= base_stake_requirement) THEN "InsufficientStake"
    ELSE "Ok"

register_reasoning_node(owner, base_stake_requirement, initial_stake) ==
    /\ register_reasoning_node_result(owner, base_stake_requirement, initial_stake) = "Ok"
    /\ node' = [node EXCEPT ![owner] =
                  [exists |-> TRUE, owner |-> owner, stake_amount |-> initial_stake,
                   base_stake_requirement |-> base_stake_requirement,
                   dynamic_min_stake |-> base_stake_requirement, active_task_id |-> 0,
                   pending_slash_amount |-> 0, status |-> "Active",
                   total_inferences |-> 0, stake_vault_bump |-> FALSE,
                   reputation_score_bps |-> INITIAL_REPUTATION_BPS,
                   dynamic_multiplier_bps |-> BPS_DENOMINATOR, pending_rewards |-> 0]]
    /\ last' = [op |-> "register_reasoning_node", signer |-> owner, task |-> 0, result |-> "Ok"]
    /\ UNCHANGED backend_vars
    /\ UNCHANGED <<now, ticks, task, inference_result, knowledge_graph, proof_registry,
                   challenge, economy_config, reward_vault, stake_vault, hist>>

\* ---- claim_task ----
\* claim_task without the stake check.
claim_task_result_no_stake(node_owner, t) ==
    IF ~node[node_owner].exists \/ ~task[t].exists THEN "AccountNotInitialized"
    ELSE IF ~(node[node_owner].status = "Active") THEN "NodeInactive"
    ELSE IF ~(task[t].status = "Pending" \/ task[t].status = "Reasoning")
         THEN "TaskNotClaimable"
    ELSE IF ~(node[node_owner].active_task_id = 0 \/ node[node_owner].active_task_id = t)
         THEN "NodeBusy"
    ELSE "Ok"

\* claim_task without the busy check.
claim_task_result_no_busy(node_owner, t) ==
    IF ~node[node_owner].exists \/ ~task[t].exists THEN "AccountNotInitialized"
    ELSE IF ~(node[node_owner].status = "Active") THEN "NodeInactive"
    ELSE IF ~(task[t].status = "Pending" \/ task[t].status = "Reasoning")
         THEN "TaskNotClaimable"
    ELSE IF ~(node[node_owner].stake_amount >= task[t].min_node_stake)
         THEN "InsufficientStake"
    ELSE "Ok"

claim_task_result(node_owner, t) ==
    IF ~node[node_owner].exists \/ ~task[t].exists THEN "AccountNotInitialized"
    ELSE IF ~(node[node_owner].status = "Active") THEN "NodeInactive"
    ELSE IF ~(task[t].status = "Pending" \/ task[t].status = "Reasoning")
         THEN "TaskNotClaimable"
    ELSE IF ~(node[node_owner].stake_amount >= task[t].min_node_stake)
         THEN "InsufficientStake"
    ELSE IF ~(node[node_owner].active_task_id = 0 \/ node[node_owner].active_task_id = t)
         THEN "NodeBusy"
    ELSE "Ok"

claim_task(node_owner, t) ==
    /\ claim_task_result(node_owner, t) = "Ok"
    /\ node' = [node EXCEPT ![node_owner].active_task_id = t]
    /\ task' = [task EXCEPT ![t].status = "Reasoning"]
    /\ hist' = [hist EXCEPT ![t].claimed = @ \cup {node_owner},
                            ![t].verified = (task[t].status = "Reasoning" /\ @)]
    /\ last' = [op |-> "claim_task", signer |-> node_owner, task |-> t, result |-> "Ok"]
    /\ UNCHANGED backend_vars
    /\ UNCHANGED <<now, ticks, inference_result, knowledge_graph, proof_registry,
                   challenge, economy_config, reward_vault, stake_vault>>

\* ---- submit_reasoning ----
\* submit_reasoning without the assignment check.
submit_reasoning_result_no_assignment(node_owner, t, result_hash_len, metadata_hash_len, ipfs_cid_len) ==
    IF ~node[node_owner].exists \/ ~task[t].exists THEN "AccountNotInitialized"
    ELSE IF <<t, node_owner>> \in inference_result THEN "AccountAlreadyInUse"
    ELSE IF ~enforce_len(result_hash_len, HASH_MAX_LEN) THEN "StringTooLong"
    ELSE IF ~enforce_len(metadata_hash_len, HASH_MAX_LEN) THEN "StringTooLong"
    ELSE IF ~enforce_len(ipfs_cid_len, CID_MAX_LEN) THEN "StringTooLong"
    ELSE IF ~(task[t].status = "Reasoning") THEN "TaskNotInReasoning"
    ELSE "Ok"

\* submit_reasoning whose InferenceResult account may exist already.
submit_reasoning_result_no_init(node_owner, t, result_hash_len, metadata_hash_len, ipfs_cid_len) ==
    IF ~node[node_owner].exists \/ ~task[t].exists THEN "AccountNotInitialized"
    ELSE IF ~enforce_len(result_hash_len, HASH_MAX_LEN) THEN "StringTooLong"
    ELSE IF ~enforce_len(metadata_hash_len, HASH_MAX_LEN) THEN "StringTooLong"
    ELSE IF ~enforce_len(ipfs_cid_len, CID_MAX_LEN) THEN "StringTooLong"
    ELSE IF ~(task[t].status = "Reasoning") THEN "TaskNotInReasoning"
    ELSE IF ~(node[node_owner].active_task_id = t) THEN "NodeNotAssigned"
    ELSE "Ok"

submit_reasoning_result(node_owner, t, result_hash_len, metadata_hash_len, ipfs_cid_len) ==
    IF ~node[node_owner].exists \/ ~task[t].exists THEN "AccountNotInitialized"
    ELSE IF <<t, node_owner>> \in inference_result THEN "AccountAlreadyInUse"
    ELSE IF ~enforce_len(result_hash_len, HASH_MAX_LEN) THEN "StringTooLong"
    ELSE IF ~enforce_len(metadata_hash_len, HASH_MAX_LEN) THEN "StringTooLong"
    ELSE IF ~enforce_len(ipfs_cid_len, CID_MAX_LEN) THEN "StringTooLong"
    ELSE IF ~(task[t].status = "Reasoning") THEN "TaskNotInReasoning"
    ELSE IF ~(node[node_owner].active_task_id = t) THEN "NodeNotAssigned"
    ELSE "Ok"

submit_reasoning(node_owner, t, result_hash, result_hash_len) ==
    /\ submit_reasoning_result(node_owner, t, result_hash_len, HASH_MAX_LEN, CID_MAX_LEN) = "Ok"
    /\ node' = [node EXCEPT ![node_owner].total_inferences = @ + 1]
    /\ task' = [task EXCEPT ![t].reasoning_result = result_hash,
                            ![t].status = "Verifying"]
    /\ inference_result' = inference_result \cup {<<t, node_owner>>}
    /\ hist' = [hist EXCEPT ![t].was_verifying = TRUE]
    /\ last' = [op |-> "submit_reasoning", signer |-> node_owner, task |-> t, result |-> "Ok"]
    /\ UNCHANGED backend_vars
    /\ UNCHANGED <<now, ticks, knowledge_graph, proof_registry, challenge,
                   economy_config, reward_vault, stake_vault>>

\* ---- submit_verification ----
submit_verification_result(t, verification_score_bps, metadata_uri_len) ==
    IF ~task[t].exists THEN "AccountNotInitialized"
    ELSE IF ~enforce_len(metadata_uri_len, CID_MAX_LEN) THEN "StringTooLong"
    ELSE IF ~(verification_score_bps <= BPS_DENOMINATOR) THEN "InvalidScore"
    ELSE IF ~(task[t].status = "Verifying" \/ task[t].status = "ProofPending")
         THEN "TaskNotVerifying"
    ELSE "Ok"

\* base_window / adjusted_window / the new challenge_period_end (tro.rs 362-370)
adjusted_challenge_period_end(t, clock) ==
    LET base_window == task[t].challenge_period_end - task[t].created_ts
        adjusted_window == Max(base_window, MIN_CHALLENGE_WINDOW)
    IN  clock + adjusted_window

verified_status(requires_proof) ==
    IF requires_proof THEN "ProofPending" ELSE "ReadyForExecution"

submit_verification(verifier, t, verification_score_bps, metadata_uri_len) ==
    /\ submit_verification_result(t, verification_score_bps, metadata_uri_len) = "Ok"
    /\ hist[t].verifications < MaxVerifications
    /\ knowledge_graph' =
          [exists |-> TRUE,
           authority |-> IF knowledge_graph.authority = DefaultKey
                         THEN verifier ELSE knowledge_graph.authority]
    /\ task' = [task EXCEPT ![t].verification_score_bps = verification_score_bps,
                            ![t].challenge_period_end = adjusted_challenge_period_end(t, now),
                            ![t].status = verified_status(task[t].requires_proof)]
    /\ hist' = [hist EXCEPT ![t].verifications = @ + 1, ![t].verified = TRUE]
    /\ last' = [op |-> "submit_verification", signer |-> verifier, task |-> t, result |-> "Ok"]
    /\ UNCHANGED backend_vars
    /\ UNCHANGED <<now, ticks, node, inference_result, proof_registry, challenge,
                   economy_config, reward_vault, stake_vault>>

\* ---- submit_proof ----
submit_proof_result(t, min_verifiers) ==
    IF ~task[t].exists THEN "AccountNotInitialized"
    ELSE IF ~(min_verifiers > 0) THEN "InvalidProofPolicy"
    ELSE IF ~(task[t].status = "ProofPending"
              \/ (~task[t].requires_proof /\ task[t].status = "Verifying"))
         THEN "TaskNotAwaitingProof"
    ELSE "Ok"

submit_proof(prover, t, min_verifiers) ==
    /\ submit_proof_result(t, min_verifiers) = "Ok"
    /\ task' = [task EXCEPT ![t].status = "ReadyForExecution"]
    /\ proof_registry' = proof_registry \cup {t}
    /\ last' = [op |-> "submit_proof", signer |-> prover, task |-> t, result |-> "Ok"]
    /\ UNCHANGED backend_vars
    /\ UNCHANGED <<now, ticks, node, inference_result, knowledge_graph, challenge,
                   economy_config, reward_vault, stake_vault, hist>>

\* ---- challenge_result ----
\* challenge_result without the challenge-window check.
challenge_result_result_no_window(challenger, t, stake, reason_len, evidence_len) ==
    IF ~task[t].exists THEN "AccountNotInitialized"
    ELSE IF challenge[<<t, challenger>>].exists THEN "AccountAlreadyInUse"
    ELSE IF ~enforce_len(reason_len, REASON_MAX_LEN) THEN "StringTooLong"
    ELSE IF ~enforce_len(evidence_len, EVIDENCE_MAX_LEN) THEN "StringTooLong"
    ELSE IF ~(stake > 0) THEN "InsufficientStake"
    ELSE IF ~(task[t].status = "ReadyForExecution" \/ task[t].status = "Finalized")
         THEN "TaskNotChallengeable"
    ELSE "Ok"

\* challenge_result without the stake check.
challenge_result_result_no_stake(challenger, t, stake, reason_len, evidence_len) ==
    IF ~task[t].exists THEN "AccountNotInitialized"
    ELSE IF challenge[<<t, challenger>>].exists THEN "AccountAlreadyInUse"
    ELSE IF ~enforce_len(reason_len, REASON_MAX_LEN) THEN "StringTooLong"
    ELSE IF ~enforce_len(evidence_len, EVIDENCE_MAX_LEN) THEN "StringTooLong"
    ELSE IF ~(task[t].status = "ReadyForExecution" \/ task[t].status = "Finalized")
         THEN "TaskNotChallengeable"
    ELSE IF ~(now <= task[t].challenge_period_end) THEN "ChallengeWindowClosed"
    ELSE "Ok"

challenge_result_result(challenger, t, stake, reason_len, evidence_len) ==
    IF ~task[t].exists THEN "AccountNotInitialized"
    ELSE IF challenge[<<t, challenger>>].exists THEN "AccountAlreadyInUse"
    ELSE IF ~enforce_len(reason_len, REASON_MAX_LEN) THEN "StringTooLong"
    ELSE IF ~enforce_len(evidence_len, EVIDENCE_MAX_LEN) THEN "StringTooLong"
    ELSE IF ~(stake > 0) THEN "InsufficientStake"
    ELSE IF ~(task[t].status = "ReadyForExecution" \/ task[t].status = "Finalized")
         THEN "TaskNotChallengeable"
    ELSE IF ~(now <= task[t].challenge_period_end) THEN "ChallengeWindowClosed"
    ELSE "Ok"

challenge_result(challenger, t, stake, reason_len) ==
    /\ challenge_result_result(challenger, t, stake, reason_len, EVIDENCE_MAX_LEN) = "Ok"
    /\ challenge' = [challenge EXCEPT ![<<t, challenger>>] =
                        [exists |-> TRUE, stake |-> stake, status |-> "Pending",
                         outcome |-> "Pending"]]
    /\ task' = [task EXCEPT ![t].status = "Disputed",
                            ![t].dispute_count = SaturatingAddU8(@, 1)]
    /\ last' = [op |-> "challenge_result", signer |-> challenger, task |-> t, result |-> "Ok"]
    /\ UNCHANGED backend_vars
    /\ UNCHANGED <<now, ticks, node, inference_result, knowledge_graph, proof_registry,
                   economy_config, reward_vault, stake_vault, hist>>

\* ---- resolve_challenge ----
resolve_challenge_result(dao_authority, t, challenger) ==
    IF ~task[t].exists \/ ~challenge[<<t, challenger>>].exists \/ ~knowledge_graph.exists
         THEN "AccountNotInitialized"
    ELSE IF ~(knowledge_graph.authority = dao_authority) THEN "ConstraintRaw"
    ELSE IF ~(task[t].status = "Disputed") THEN "TaskNotDisputed"
    ELSE IF ~(challenge[<<t, challenger>>].status = "Pending"
              \/ challenge[<<t, challenger>>].status = "UnderReview")
         THEN "ChallengeAlreadyResolved"
    ELSE "Ok"

\* An Overturned branch that keeps the reasoning result and the score.
resolved_task_keeps_result(resolution, tr) ==
    [tr EXCEPT !.status = CASE resolution = "Upheld" -> "ReadyForExecution"
                            [] resolution = "Overturned" -> "Reasoning"
                            [] OTHER -> @]

\* match resolution { Upheld, Overturned, Pending } (tro.rs 556-566)
resolved_task(resolution, tr) ==
    [tr EXCEPT !.status = CASE resolution = "Upheld" -> "ReadyForExecution"
                            [] resolution = "Overturned" -> "Reasoning"
                            [] OTHER -> @,
               !.reasoning_result = IF resolution = "Overturned" THEN 0 ELSE @,
               !.verification_score_bps = IF resolution = "Overturned" THEN 0 ELSE @]

resolve_challenge(dao_authority, t, challenger, resolution) ==
    /\ resolve_challenge_result(dao_authority, t, challenger) = "Ok"
    /\ challenge' = [challenge EXCEPT ![<<t, challenger>>].status = "Resolved",
                                      ![<<t, challenger>>].outcome = resolution]
    /\ task' = [task EXCEPT ![t] = resolved_task(resolution, @)]
    /\ hist' = [hist EXCEPT ![t].verified = (resolution # "Overturned" /\ @)]
    /\ last' = [op |-> "resolve_challenge", signer |-> dao_authority, task |-> t, result |-> "Ok"]
    /\ UNCHANGED backend_vars
    /\ UNCHANGED <<now, ticks, node, inference_result, knowledge_graph, proof_registry,
                   economy_config, reward_vault, stake_vault>>

\* ---- finalize_task ----
\* finalize_task without the status check.
finalize_task_result_no_status(authority, t) ==
    IF ~task[t].exists THEN "AccountNotInitialized"
    ELSE IF ~(task[t].submitter = authority) THEN "ConstraintRaw"
    ELSE IF ~(now >= task[t].challenge_period_end) THEN "ChallengeWindowOpen"
    ELSE "Ok"

\* finalize_task without the challenge-window check.
finalize_task_result_no_window(authority, t) ==
    IF ~task[t].exists THEN "AccountNotInitialized"
    ELSE IF ~(task[t].submitter = authority) THEN "ConstraintRaw"
    ELSE IF ~(task[t].status = "ReadyForExecution") THEN "TaskNotExecutable"
    ELSE "Ok"

finalize_task_result(authority, t) ==
    IF ~task[t].exists THEN "AccountNotInitialized"
    ELSE IF ~(task[t].submitter = authority) THEN "ConstraintRaw"
    ELSE IF ~(task[t].status = "ReadyForExecution") THEN "TaskNotExecutable"
    ELSE IF ~(now >= task[t].challenge_period_end) THEN "ChallengeWindowOpen"
    ELSE "Ok"

finalize_task(authority, t) ==
    /\ finalize_task_result(authority, t) = "Ok"
    /\ task' = [task EXCEPT ![t].status = "Finalized"]
    /\ last' = [op |-> "finalize_task", signer |-> authority, task |-> t, result |-> "Ok"]
    /\ UNCHANGED backend_vars
    /\ UNCHANGED <<now, ticks, node, inference_result, knowledge_graph, proof_registry,
                   challenge, economy_config, reward_vault, stake_vault, hist>>

\* ---- initialize_economy ----
initialize_economy_result(base_reward_rate_bps, high_perf_multiplier_bps, low_perf_penalty_bps, stake_floor, stake_ceiling) ==
    IF economy_config.exists \/ reward_vault.exists THEN "AccountAlreadyInUse"
    ELSE IF ~(stake_ceiling >= stake_floor) THEN "InvalidStakeRange"
    ELSE IF ~(/\ base_reward_rate_bps <= BPS_DENOMINATOR
              /\ high_perf_multiplier_bps <= BPS_DENOMINATOR
              /\ low_perf_penalty_bps <= BPS_DENOMINATOR)
         THEN "InvalidScore"
    ELSE "Ok"

initialize_economy(authority, base_reward_rate_bps, high_perf_multiplier_bps, low_perf_penalty_bps, stake_floor, stake_ceiling, rent) ==
    /\ initialize_economy_result(base_reward_rate_bps, high_perf_multiplier_bps,
                                 low_perf_penalty_bps, stake_floor, stake_ceiling) = "Ok"
    /\ economy_config' =
          [exists |-> TRUE, authority |-> authority, slash_pool |-> 0,
           base_reward_rate_bps |-> base_reward_rate_bps,
           high_perf_multiplier_bps |-> high_perf_multiplier_bps,
           low_perf_penalty_bps |-> low_perf_penalty_bps,
           stake_floor |-> stake_floor, stake_ceiling |-> stake_ceiling]
    /\ reward_vault' = [exists |-> TRUE, authority |-> authority, total_accrued |-> 0,
                        total_distributed |-> 0, lamports |-> rent]
    /\ last' = [op |-> "initialize_economy", signer |-> authority, task |-> 0, result |-> "Ok"]
    /\ UNCHANGED backend_vars
    /\ UNCHANGED <<now, ticks, task, node, inference_result, knowledge_graph,
                   proof_registry, challenge, stake_vault, hist>>

\* ---- deposit_stake ----
deposit_stake_result(node_owner, amount) ==
    IF ~node[node_owner].exists THEN "AccountNotInitialized"
    ELSE IF ~(amount > 0) THEN "InvalidAmount"
    ELSE "Ok"

deposit_stake(node_owner, amount, rent) ==
    /\ deposit_stake_result(node_owner, amount) = "Ok"
    /\ node[node_owner].stake_amount + amount <= MaxStake
    /\ stake_vault' = [stake_vault EXCEPT ![node_owner] =
                         [exists |-> TRUE, owner |-> node_owner,
                          total_stake |-> @.total_stake + amount,
                          lamports |-> (IF @.exists THEN @.lamports ELSE rent) + amount]]
    /\ node' = [node EXCEPT
                  ![node_owner].stake_amount = @ + amount,
                  ![node_owner].dynamic_min_stake =
                      IF @ = 0 THEN node[node_owner].base_stake_requirement ELSE @,
                  ![node_owner].stake_vault_bump = TRUE]
    /\ last' = [op |-> "deposit_stake", signer |-> node_owner, task |-> 0, result |-> "Ok"]
    /\ UNCHANGED backend_vars
    /\ UNCHANGED <<now, ticks, task, inference_result, knowledge_graph, proof_registry,
                   challenge, economy_config, reward_vault, hist>>

\* ---- slash_malicious_node ----
\* slash_malicious_node without the check of stake_vault.total_stake.
slash_malicious_node_result_no_total_stake(dao_authority, node_owner, slash_amount) ==
    IF ~node[node_owner].exists \/ ~stake_vault[node_owner].exists
       \/ ~reward_vault.exists \/ ~economy_config.exists \/ ~knowledge_graph.exists
         THEN "AccountNotInitialized"
    ELSE IF ~node[node_owner].stake_vault_bump THEN "ConstraintSeeds"
    ELSE IF ~(stake_vault[node_owner].owner = node_owner) THEN "ConstraintRaw"
    ELSE IF ~(reward_vault.authority = dao_authority) THEN "ConstraintRaw"
    ELSE IF ~(economy_config.authority = dao_authority) THEN "ConstraintRaw"
    ELSE IF ~(knowledge_graph.authority = dao_authority) THEN "ConstraintRaw"
    ELSE IF ~(slash_amount > 0) THEN "InvalidSlashAmount"
    ELSE IF ~(node[node_owner].owner = node_owner) THEN "UnauthorizedActor"
    ELSE IF ~(stake_vault[node_owner].lamports >= slash_amount) THEN "InsufficientStake"
    ELSE "Ok"

slash_malicious_node_result(dao_authority, node_owner, slash_amount) ==
    IF ~node[node_owner].exists \/ ~stake_vault[node_owner].exists
       \/ ~reward_vault.exists \/ ~economy_config.exists \/ ~knowledge_graph.exists
         THEN "AccountNotInitialized"
    ELSE IF ~node[node_owner].stake_vault_bump THEN "ConstraintSeeds"
    ELSE IF ~(stake_vault[node_owner].owner = node_owner) THEN "ConstraintRaw"
    ELSE IF ~(reward_vault.authority = dao_authority) THEN "ConstraintRaw"
    ELSE IF ~(economy_config.authority = dao_authority) THEN "ConstraintRaw"
    ELSE IF ~(knowledge_graph.authority = dao_authority) THEN "ConstraintRaw"
    ELSE IF ~(slash_amount > 0) THEN "InvalidSlashAmount"
    ELSE IF ~(node[node_owner].owner = node_owner) THEN "UnauthorizedActor"
    ELSE IF ~(stake_vault[node_owner].total_stake >= slash_amount) THEN "InsufficientStake"
    ELSE IF ~(stake_vault[node_owner].lamports >= slash_amount) THEN "InsufficientStake"
    ELSE "Ok"

slash_malicious_node(dao_authority, node_owner, slash_amount, suspend) ==
    /\ slash_malicious_node_result(dao_authority, node_owner, slash_amount) = "Ok"
    /\ economy_config.slash_pool + slash_amount <= MaxSlashPool
    /\ node' = [node EXCEPT
                  ![node_owner].pending_slash_amount = @ + slash_amount,
                  ![node_owner].stake_amount = Max(@ - slash_amount, 0),
                  ![node_owner].status = IF suspend THEN "Suspended" ELSE @]
    /\ stake_vault' = [stake_vault EXCEPT
                         ![node_owner].total_stake = Max(@ - slash_amount, 0),
                         ![node_owner].lamports = @ - slash_amount]
    /\ reward_vault' = [reward_vault EXCEPT !.lamports = @ + slash_amount,
                                            !.total_accrued = @ + slash_amount]
    /\ economy_config' = [economy_config EXCEPT !.slash_pool = @ + slash_amount]
    /\ last' = [op |-> "slash_malicious_node", signer |-> dao_authority, task |-> 0, result |-> "Ok"]
    /\ UNCHANGED backend_vars
    /\ UNCHANGED <<now, ticks, task, inference_result, knowledge_graph, proof_registry,
                   challenge, hist>>

\* ---- withdraw_stake ----
withdraw_stake_result(node_owner, amount) ==
    IF ~node[node_owner].exists \/ ~stake_vault[node_owner].exists
         THEN "AccountNotInitialized"
    ELSE IF ~node[node_owner].stake_vault_bump THEN "ConstraintSeeds"
    ELSE IF ~(stake_vault[node_owner].owner = node_owner) THEN "ConstraintRaw"
    ELSE IF ~(amount > 0) THEN "InvalidAmount"
    ELSE IF ~(node[node_owner].stake_amount >= amount) THEN "InsufficientStake"
    ELSE IF ~(stake_vault[node_owner].lamports >= amount) THEN "InsufficientStake"
    ELSE IF ~(Max(node[node_owner].stake_amount - amount, 0)
                 >= node[node_owner].dynamic_min_stake)
         THEN "StakeBelowMinimum"
    ELSE "Ok"

\* An account whose lamports are debited to zero is removed from the ledger at
\* the end of the transaction.
withdraw_stake(node_owner, amount) ==
    /\ withdraw_stake_result(node_owner, amount) = "Ok"
    /\ node' = [node EXCEPT ![node_owner].stake_amount = Max(@ - amount, 0)]
    /\ stake_vault' = [stake_vault EXCEPT ![node_owner] =
                         IF @.lamports - amount = 0 THEN NoStakeVault
                         ELSE [@ EXCEPT !.total_stake = Max(@ - amount, 0),
                                        !.lamports = @ - amount]]
    /\ last' = [op |-> "withdraw_stake", signer |-> node_owner, task |-> 0, result |-> "Ok"]
    /\ UNCHANGED backend_vars
    /\ UNCHANGED <<now, ticks, task, inference_result, knowledge_graph, proof_registry,
                   challenge, economy_config, reward_vault, hist>>

\* ---- update_dynamic_stake ----
update_dynamic_stake_result(dao_authority, node_owner) ==
    IF ~economy_config.exists \/ ~node[node_owner].exists THEN "AccountNotInitialized"
    ELSE IF ~(economy_config.authority = dao_authority) THEN "ConstraintRaw"
    ELSE IF ~(node[node_owner].owner = node_owner) THEN "ConstraintRaw"
    ELSE "Ok"

\* new_min.max(economy.stake_floor) (tro.rs 880-887)
new_dynamic_min_stake(reputation) ==
    LET span == Max(economy_config.stake_ceiling - economy_config.stake_floor, 0)
        inverted == Max(BPS_DENOMINATOR - reputation, 0)
        new_min == economy_config.stake_floor + ((span * inverted) \div BPS_DENOMINATOR)
    IN  Max(new_min, economy_config.stake_floor)

new_dynamic_multiplier_bps(reputation) ==
    IF reputation >= HIGH_REPUTATION_BPS THEN economy_config.high_perf_multiplier_bps
    ELSE IF reputation <= LOW_REPUTATION_BPS THEN economy_config.low_perf_penalty_bps
    ELSE economy_config.base_reward_rate_bps

update_dynamic_stake(dao_authority, node_owner) ==
    /\ update_dynamic_stake_result(dao_authority, node_owner) = "Ok"
    /\ node' = [node EXCEPT
                  ![node_owner].dynamic_min_stake =
                      new_dynamic_min_stake(node[node_owner].reputation_score_bps),
                  ![node_owner].dynamic_multiplier_bps =
                      new_dynamic_multiplier_bps(node[node_owner].reputation_score_bps)]
    /\ last' = [op |-> "update_dynamic_stake", signer |-> dao_authority, task |-> 0, result |-> "Ok"]
    /\ UNCHANGED backend_vars
    /\ UNCHANGED <<now, ticks, task, inference_result, knowledge_graph, proof_registry,
                   challenge, economy_config, reward_vault, stake_vault, hist>>

\* ---- queue_reward_settlement ----
\* queue_reward_settlement without the stake_pool check.
queue_reward_settlement_result_no_pool(t, node_owner, amount) ==
    IF ~task[t].exists \/ ~node[node_owner].exists \/ ~economy_config.exists
       \/ ~reward_vault.exists
         THEN "AccountNotInitialized"
    ELSE IF ~(node[node_owner].owner = node_owner) THEN "ConstraintRaw"
    ELSE IF ~(reward_vault.authority = economy_config.authority) THEN "ConstraintRaw"
    ELSE IF ~(amount > 0) THEN "InvalidAmount"
    ELSE IF ~(task[t].status = "ReadyForExecution" \/ task[t].status = "Finalized")
         THEN "TaskNotExecutable"
    ELSE "Ok"

queue_reward_settlement_result(t, node_owner, amount) ==
    IF ~task[t].exists \/ ~node[node_owner].exists \/ ~economy_config.exists
       \/ ~reward_vault.exists
         THEN "AccountNotInitialized"
    ELSE IF ~(node[node_owner].owner = node_owner) THEN "ConstraintRaw"
    ELSE IF ~(reward_vault.authority = economy_config.authority) THEN "ConstraintRaw"
    ELSE IF ~(amount > 0) THEN "InvalidAmount"
    ELSE IF ~(task[t].status = "ReadyForExecution" \/ task[t].status = "Finalized")
         THEN "TaskNotExecutable"
    ELSE IF ~(task[t].stake_pool >= amount) THEN "InsufficientStake"
    ELSE "Ok"

\* performance_factor and adjusted_amount (tro.rs 966-971)
adjusted_amount(amount, reputation_score_bps, dynamic_multiplier_bps) ==
    LET performance_factor == Max(reputation_score_bps + dynamic_multiplier_bps,
                                  BPS_DENOMINATOR)
    IN  (amount * performance_factor) \div BPS_DENOMINATOR

queue_reward_settlement(payer, t, node_owner, amount) ==
    /\ queue_reward_settlement_result(t, node_owner, amount) = "Ok"
    /\ reward_vault' = [reward_vault EXCEPT !.lamports = @ + amount,
                                            !.total_accrued = @ + amount]
    /\ node' = [node EXCEPT ![node_owner].pending_rewards =
                  @ + adjusted_amount(amount, node[node_owner].reputation_score_bps,
                                      node[node_owner].dynamic_multiplier_bps)]
    /\ task' = [task EXCEPT ![t].stake_pool = Max(@ - amount, 0)]
    /\ hist' = [hist EXCEPT ![t].queued = @ + amount]
    /\ last' = [op |-> "queue_reward_settlement", signer |-> payer, task |-> t, result |-> "Ok"]
    /\ UNCHANGED backend_vars
    /\ UNCHANGED <<now, ticks, inference_result, knowledge_graph, proof_registry,
                   challenge, economy_config, stake_vault>>

\* ---- settle_reward ----
payout_of(node_owner) == Min(node[node_owner].pending_rewards, reward_vault.lamports)

settle_reward_result(dao_authority, node_owner) ==
    IF ~economy_config.exists \/ ~reward_vault.exists \/ ~node[node_owner].exists
         THEN "AccountNotInitialized"
    ELSE IF ~(economy_config.authority = dao_authority) THEN "ConstraintRaw"
    ELSE IF ~(reward_vault.authority = economy_config.authority) THEN "ConstraintRaw"
    ELSE IF ~(node[node_owner].owner = node_owner) THEN "ConstraintRaw"
    ELSE IF ~(node[node_owner].pending_rewards > 0) THEN "InsufficientPendingRewards"
    ELSE IF ~(payout_of(node_owner) > 0) THEN "InsufficientPendingRewards"
    ELSE "Ok"

\* The reward vault, too, is removed from the ledger when its lamports reach zero.
settle_reward(dao_authority, node_owner) ==
    /\ settle_reward_result(dao_authority, node_owner) = "Ok"
    /\ node' = [node EXCEPT ![node_owner].pending_rewards =
                  Max(@ - payout_of(node_owner), 0)]
    /\ reward_vault' =
          IF reward_vault.lamports - payout_of(node_owner) = 0 THEN NoRewardVault
          ELSE [reward_vault EXCEPT
                  !.total_distributed = @ + payout_of(node_owner),
                  !.lamports = @ - payout_of(node_owner)]
    /\ last' = [op |-> "settle_reward", signer |-> dao_authority, task |-> 0, result |-> "Ok"]
    /\ UNCHANGED backend_vars
    /\ UNCHANGED <<now, ticks, task, inference_result, knowledge_graph, proof_registry,
                   challenge, economy_config, stake_vault, hist>>

Lifecycle ==
    \/ \E s \in Submitters, t \in LifecycleTasks, l \in StringLens, c \in Criticalities,
          m \in TaskMinStakes, w \in ChallengeWindows :
          submit_intent_task(s, t, l, c, 1, m, w)
    \/ \E o \in Keys, i \in NodeStakes : register_reasoning_node(o, 1, i)
    \/ \E o \in Keys, t \in LifecycleTasks : claim_task(o, t)
    \/ \E o \in Keys, t \in LifecycleTasks, l \in StringLens : submit_reasoning(o, t, 1, l)
    \/ \E v \in Keys, t \in LifecycleTasks, s \in Scores :
          submit_verification(v, t, s, CID_MAX_LEN)
    \/ \E p \in Keys, t \in LifecycleTasks, m \in MinVerifiers : submit_proof(p, t, m)
    \/ \E c \in Keys, t \in LifecycleTasks, s \in ChallengeStakes :
          challenge_result(c, t, s, REASON_MAX_LEN)
    \/ \E d \in Keys, t \in LifecycleTasks, c \in Keys, r \in Resolutions :
          resolve_challenge(d, t, c, r)

\* The task state machine under a moving clock.
Next ==
    \/ \E d \in TimeSteps : Tick(d)
    \/ Lifecycle
    \/ \E a \in Keys, t \in LifecycleTasks : finalize_task(a, t)

Spec == Init /\ [][Next]_vars

\* The DAO-gated operations next to the task state machine, at a fixed clock.
NextDao ==
    \/ \E s \in Submitters, t \in LifecycleTasks :
          submit_intent_task(s, t, HASH_MAX_LEN, "Standard", 1, 2, MIN_CHALLENGE_WINDOW)
    \/ \E o \in StakedOwners : register_reasoning_node(o, 1, 2)
    \/ \E o \in Keys, t \in LifecycleTasks : claim_task(o, t)
    \/ \E o \in Keys, t \in LifecycleTasks : submit_reasoning(o, t, 1, HASH_MAX_LEN)
    \/ \E v \in Keys, t \in LifecycleTasks :
          submit_verification(v, t, BPS_DENOMINATOR, CID_MAX_LEN)
    \/ \E c \in Keys, t \in LifecycleTasks : challenge_result(c, t, 1, REASON_MAX_LEN)
    \/ \E d \in Keys, t \in LifecycleTasks, c \in Keys, r \in Resolutions :
          resolve_challenge(d, t, c, r)
    \/ \E a \in EconomyAuthorities, c \in StakeCeilings, r \in RentLamports :
          initialize_economy(a, BPS_DENOMINATOR, BPS_DENOMINATOR, BPS_DENOMINATOR, 1, c, r)
    \/ \E o \in Keys, a \in DepositAmounts, r \in RentLamports : deposit_stake(o, a, r)
    \/ \E d \in Keys, o \in Keys, a \in SlashAmounts, s \in BOOLEAN :
          slash_malicious_node(d, o, a, s)

SpecDao == Init /\ [][NextDao]_vars

\* Node staking, slashing and claiming over two tasks, at a fixed clock.
NextNode ==
    \/ \E s \in Submitters, t \in TaskIds :
          submit_intent_task(s, t, HASH_MAX_LEN, "Standard", 1, 2, MIN_CHALLENGE_WINDOW)
    \/ \E o \in Keys, i \in RegisterStakes : register_reasoning_node(o, 1, i)
    \/ \E o \in Keys, t \in TaskIds : claim_task(o, t)
    \/ \E o \in Keys, t \in LifecycleTasks : submit_reasoning(o, t, 1, HASH_MAX_LEN)
    \/ \E v \in EconomyAuthorities, t \in LifecycleTasks :
          submit_verification(v, t, BPS_DENOMINATOR, CID_MAX_LEN)
    \/ \E a \in EconomyAuthorities, c \in WideStakeCeilings, r \in RentLamports :
          initialize_economy(a, BPS_DENOMINATOR, BPS_DENOMINATOR, BPS_DENOMINATOR, 1, c, r)
    \/ \E o \in Keys, a \in DepositAmounts, r \in RentLamports : deposit_stake(o, a, r)
    \/ \E o \in Keys, a \in WithdrawAmounts : withdraw_stake(o, a)
    \/ \E d \in Keys, o \in Keys : update_dynamic_stake(d, o)
    \/ \E d \in Keys, o \in Keys, a \in SlashAmounts, s \in BOOLEAN :
          slash_malicious_node(d, o, a, s)

SpecNode == Init /\ [][NextNode]_vars

\* Reward queueing and settlement next to slashing, for one task.
NextReward ==
    \/ Tick(MIN_CHALLENGE_WINDOW)
    \/ \E s \in Submitters, t \in LifecycleTasks, p \in RewardPools :
          submit_intent_task(s, t, HASH_MAX_LEN, "Standard", p, 2, MIN_CHALLENGE_WINDOW)
    \/ \E o \in StakedOwners : register_reasoning_node(o, 1, 2)
    \/ \E o \in Submitters, t \in LifecycleTasks : claim_task(o, t)
    \/ \E o \in Submitters, t \in LifecycleTasks : submit_reasoning(o, t, 1, HASH_MAX_LEN)
    \/ \E v \in EconomyAuthorities, t \in LifecycleTasks :
          submit_verification(v, t, BPS_DENOMINATOR, CID_MAX_LEN)
    \/ \E a \in Submitters, t \in LifecycleTasks : finalize_task(a, t)
    \/ \E a \in EconomyAuthorities, b \in RewardRates, r \in RentLamports :
          initialize_economy(a, b, BPS_DENOMINATOR, BPS_DENOMINATOR, 1, 2, r)
    \/ \E d \in Keys, o \in Keys : update_dynamic_stake(d, o)
    \/ \E o \in SlashedOwners, a \in DepositAmounts, r \in RentLamports : deposit_stake(o, a, r)
    \/ \E d \in Keys, o \in SlashedOwners, a \in SlashAmounts, s \in BOOLEAN :
          slash_malicious_node(d, o, a, s)
    \/ \E p \in Submitters, t \in LifecycleTasks, o \in Keys, a \in QueueAmounts :
          queue_reward_settlement(p, t, o, a)
    \/ \E d \in Keys, o \in Keys : settle_reward(d, o)

SpecReward == Init /\ [][NextReward]_vars

(***************************************************************************)
(* Rejected instructions.  The accounts an instruction declares with init   *)
(* or init_if_needed are created while its accounts are validated, before   *)
(* the handler body runs; the entry point hands the handler's Result back,  *)
(* and an Err aborts the transaction, which keeps none of its writes.       *)
(***************************************************************************)
\* Errors raised while the accounts are validated, before any account is created.
AccountErrors ==
    {"AccountNotInitialized", "AccountAlreadyInUse", "ConstraintRaw", "ConstraintSeeds"}

\* A transaction that keeps its writes whatever the handler returns.
commit_always(result, before, after) == after

commit(result, before, after) == IF result = "Ok" THEN after ELSE before

\* The accounts as the handler body leaves them when it returns result.
at_return(result, before, created) == IF result \in AccountErrors THEN before ELSE created

rejected(op, signer, t, result) ==
    /\ result # "Ok"
    /\ last' = [op |-> op, signer |-> signer, task |-> t, result |-> result]
    /\ UNCHANGED backend_vars
    /\ UNCHANGED <<now, ticks, hist>>

submit_intent_task_rejected(submitter, t, intent_len, challenge_window_secs) ==
    LET result == submit_intent_task_result(t, intent_len, challenge_window_secs)
    IN  /\ rejected("submit_intent_task", submitter, t, result)
        /\ task' = commit(result, task,
                          at_return(result, task, [task EXCEPT ![t].exists = TRUE]))
        /\ UNCHANGED <<node, inference_result, knowledge_graph, proof_registry,
                       challenge, economy_config, reward_vault, stake_vault>>

claim_task_rejected(node_owner, t) ==
    /\ rejected("claim_task", node_owner, t, claim_task_result(node_owner, t))
    /\ UNCHANGED <<task, node, inference_result, knowledge_graph, proof_registry,
                   challenge, economy_config, reward_vault, stake_vault>>

submit_reasoning_rejected(node_owner, t, result_hash_len) ==
    LET result == submit_reasoning_result(node_owner, t, result_hash_len,
                                          HASH_MAX_LEN, CID_MAX_LEN)
    IN  /\ rejected("submit_reasoning", node_owner, t, result)
        /\ inference_result' =
              commit(result, inference_result,
                     at_return(result, inference_result,
                               inference_result \cup {<<t, node_owner>>}))
        /\ UNCHANGED <<task, node, knowledge_graph, proof_registry, challenge,
                       economy_config, reward_vault, stake_vault>>

submit_verification_rejected(verifier, t, verification_score_bps, metadata_uri_len) ==
    LET result == submit_verification_result(t, verification_score_bps, metadata_uri_len)
    IN  /\ rejected("submit_verification", verifier, t, result)
        /\ knowledge_graph' =
              commit(result, knowledge_graph,
                     at_return(result, knowledge_graph,
                               [knowledge_graph EXCEPT !.exists = TRUE]))
        /\ UNCHANGED <<task, node, inference_result, proof_registry, challenge,
                       economy_config, reward_vault, stake_vault>>

submit_proof_rejected(prover, t, min_verifiers) ==
    LET result == submit_proof_result(t, min_verifiers)
    IN  /\ rejected("submit_proof", prover, t, result)
        /\ proof_registry' =
              commit(result, proof_registry,
                     at_return(result, proof_registry, proof_registry \cup {t}))
        /\ UNCHANGED <<task, node, inference_result, knowledge_graph, challenge,
                       economy_config, reward_vault, stake_vault>>

challenge_result_rejected(challenger, t, stake, reason_len) ==
    LET result == challenge_result_result(challenger, t, stake, reason_len,
                                          EVIDENCE_MAX_LEN)
    IN  /\ rejected("challenge_result", challenger, t, result)
        /\ challenge' =
              commit(result, challenge,
                     at_return(result, challenge,
                               [challenge EXCEPT ![<<t, challenger>>].exists = TRUE]))
        /\ UNCHANGED <<task, node, inference_result, knowledge_graph, proof_registry,
                       economy_config, reward_vault, stake_vault>>

resolve_challenge_rejected(dao_authority, t, challenger) ==
    /\ rejected("resolve_challenge", dao_authority, t,
                resolve_challenge_result(dao_authority, t, challenger))
    /\ UNCHANGED <<task, node, inference_result, knowledge_graph, proof_registry,
                   challenge, economy_config, reward_vault, stake_vault>>

finalize_task_rejected(authority, t) ==
    /\ rejected("finalize_task", authority, t, finalize_task_result(authority, t))
    /\ UNCHANGED <<task, node, inference_result, knowledge_graph, proof_registry,
                   challenge, economy_config, reward_vault, stake_vault>>

slash_malicious_node_rejected(dao_authority, node_owner, slash_amount) ==
    /\ rejected("slash_malicious_node", dao_authority, 0,
                slash_malicious_node_result(dao_authority, node_owner, slash_amount))
    /\ UNCHANGED <<task, node, inference_result, knowledge_graph, proof_registry,
                   challenge, economy_config, reward_vault, stake_vault>>

deposit_stake_rejected(node_owner, amount, rent) ==
    LET result == deposit_stake_result(node_owner, amount)
    IN  /\ rejected("deposit_stake", node_owner, 0, result)
        /\ stake_vault' =
              commit(result, stake_vault,
                     at_return(result, stake_vault,
                               IF stake_vault[node_owner].exists THEN stake_vault
                               ELSE [stake_vault EXCEPT ![node_owner].exists = TRUE,
                                                        ![node_owner].lamports = rent]))
        /\ UNCHANGED <<task, node, inference_result, knowledge_graph, proof_registry,
                       challenge, economy_config, reward_vault>>

withdraw_stake_rejected(node_owner, amount) ==
    /\ rejected("withdraw_stake", node_owner, 0, withdraw_stake_result(node_owner, amount))
    /\ UNCHANGED <<task, node, inference_result, knowledge_graph, proof_registry,
                   challenge, economy_config, reward_vault, stake_vault>>

queue_reward_settlement_rejected(payer, t, node_owner, amount) ==
    /\ rejected("queue_reward_settlement", payer, t,
                queue_reward_settlement_result(t, node_owner, amount))
    /\ UNCHANGED <<task, node, inference_result, knowledge_graph, proof_registry,
                   challenge, economy_config, reward_vault, stake_vault>>

settle_reward_rejected(dao_authority, node_owner) ==
    /\ rejected("settle_reward", dao_authority, 0,
                settle_reward_result(dao_authority, node_owner))
    /\ UNCHANGED <<task, node, inference_result, knowledge_graph, proof_registry,
                   challenge, economy_config, reward_vault, stake_vault>>

\* Every operation of one key on one task, accepted or rejected.
Accepted ==
    \/ Tick(MIN_CHALLENGE_WINDOW)
    \/ \E s \in TxKeys, t \in LifecycleTasks :
          submit_intent_task(s, t, HASH_MAX_LEN, "Standard", 1, 2, MIN_CHALLENGE_WINDOW)
    \/ \E o \in TxKeys : register_reasoning_node(o, 1, 2)
    \/ \E o \in TxKeys, t \in LifecycleTasks : claim_task(o, t)
    \/ \E o \in TxKeys, t \in LifecycleTasks : submit_reasoning(o, t, 1, HASH_MAX_LEN)
    \/ \E v \in TxKeys, t \in LifecycleTasks :
          submit_verification(v, t, BPS_DENOMINATOR, CID_MAX_LEN)
    \/ \E p \in TxKeys, t \in LifecycleTasks : submit_proof(p, t, 1)
    \/ \E c \in TxKeys, t \in LifecycleTasks : challenge_result(c, t, 1, REASON_MAX_LEN)
    \/ \E d \in TxKeys, t \in LifecycleTasks, c \in TxKeys :
          resolve_challenge(d, t, c, "Upheld")
    \/ \E a \in TxKeys, t \in LifecycleTasks : finalize_task(a, t)
    \/ \E a \in TxKeys, r \in RentLamports :
          initialize_economy(a, BPS_DENOMINATOR, BPS_DENOMINATOR, BPS_DENOMINATOR, 1, 2, r)
    \/ \E o \in TxKeys, r \in RentLamports : deposit_stake(o, 1, r)
    \/ \E o \in TxKeys : withdraw_stake(o, 1)
    \/ \E d \in TxKeys, o \in TxKeys : slash_malicious_node(d, o, 1, FALSE)
    \/ \E p \in TxKeys, t \in LifecycleTasks, o \in TxKeys :
          queue_reward_settlement(p, t, o, 1)
    \/ \E d \in TxKeys, o \in TxKeys : settle_reward(d, o)

Rejected ==
    \/ \E s \in TxKeys, t \in LifecycleTasks, l \in StringLens, w \in ChallengeWindows :
          submit_intent_task_rejected(s, t, l, w)
    \/ \E o \in TxKeys, t \in LifecycleTasks : claim_task_rejected(o, t)
    \/ \E o \in TxKeys, t \in LifecycleTasks, l \in StringLens :
          submit_reasoning_rejected(o, t, l)
    \/ \E v \in TxKeys, t \in LifecycleTasks, s \in Scores :
          submit_verification_rejected(v, t, s, CID_MAX_LEN)
    \/ \E p \in TxKeys, t \in LifecycleTasks, m \in MinVerifiers :
          submit_proof_rejected(p, t, m)
    \/ \E c \in TxKeys, t \in LifecycleTasks, s \in ChallengeStakes :
          challenge_result_rejected(c, t, s, REASON_MAX_LEN)
    \/ \E d \in TxKeys, t \in LifecycleTasks, c \in TxKeys :
          resolve_challenge_rejected(d, t, c)
    \/ \E a \in TxKeys, t \in LifecycleTasks : finalize_task_rejected(a, t)
    \/ \E d \in TxKeys, o \in TxKeys, a \in SlashAmounts :
          slash_malicious_node_rejected(d, o, a)
    \/ \E o \in TxKeys, a \in DepositAmounts, r \in RentLamports :
          deposit_stake_rejected(o, a, r)
    \/ \E o \in TxKeys, a \in WithdrawAmounts : withdraw_stake_rejected(o, a)
    \/ \E p \in TxKeys, t \in LifecycleTasks, o \in TxKeys, a \in QueueAmounts :
          queue_reward_settlement_rejected(p, t, o, a)
    \/ \E d \in TxKeys, o \in TxKeys : settle_reward_rejected(d, o)

NextTx == Accepted \/ Rejected

SpecTx == Init /\ [][NextTx]_vars

\* Every operation that has the node account among its accounts, over two
\* tasks of which the first runs through its whole life.
NextBusy ==
    \/ Tick(MIN_CHALLENGE_WINDOW)
    \/ \E s \in Submitters, t \in TaskIds :
          submit_intent_task(s, t, HASH_MAX_LEN, "Standard", 1, 2, MIN_CHALLENGE_WINDOW)
    \/ \E o \in SlashedOwners : register_reasoning_node(o, 1, 2)
    \/ \E o \in SlashedOwners, t \in TaskIds : claim_task(o, t)
    \/ \E o \in SlashedOwners, t \in TaskIds : claim_task_rejected(o, t)
    \/ \E o \in SlashedOwners, t \in LifecycleTasks : submit_reasoning(o, t, 1, HASH_MAX_LEN)
    \/ \E v \in EconomyAuthorities, t \in LifecycleTasks :
          submit_verification(v, t, BPS_DENOMINATOR, CID_MAX_LEN)
    \/ \E p \in Submitters, t \in LifecycleTasks : submit_proof(p, t, 1)
    \/ \E c \in Submitters, t \in LifecycleTasks : challenge_result(c, t, 1, REASON_MAX_LEN)
    \/ \E d \in EconomyAuthorities, t \in LifecycleTasks, c \in Submitters, r \in Resolutions :
          resolve_challenge(d, t, c, r)
    \/ \E a \in Submitters, t \in LifecycleTasks : finalize_task(a, t)
    \/ \E a \in EconomyAuthorities, r \in RentLamports :
          initialize_economy(a, BPS_DENOMINATOR, BPS_DENOMINATOR, BPS_DENOMINATOR, 1, 2, r)
    \/ \E o \in SlashedOwners, r \in RentLamports : deposit_stake(o, 1, r)
    \/ \E o \in SlashedOwners : withdraw_stake(o, 1)
    \/ \E d \in EconomyAuthorities, o \in SlashedOwners : update_dynamic_stake(d, o)
    \/ \E d \in EconomyAuthorities, o \in SlashedOwners : slash_malicious_node(d, o, 1, TRUE)
    \/ \E p \in Submitters, t \in LifecycleTasks, o \in SlashedOwners :
          queue_reward_settlement(p, t, o, 1)
    \/ \E d \in EconomyAuthorities, o \in SlashedOwners : settle_reward(d, o)

SpecBusy == Init /\ [][NextBusy]_vars

(***************************************************************************)
(* The semantic cache (src/backend/src/services/semantic_cache_service.rs).  *)
(* A query is the sequence of its words; both layers hold at most one entry  *)
(* per query hash.  Utc::now() is utc_now; one call of the service reads it  *)
(* at one instant.                                                           *)
(***************************************************************************)
to_lowercase(w) ==
    CASE w = "A" -> "a"
      [] w = "B" -> "b"
      [] w = "Paris" -> "paris"
      [] w = "France" -> "france"
      [] w = "Europe" -> "europe"
      [] w = "Lutetia" -> "lutetia"
      [] w = "It MIGHT BE so" -> "it might be so"
      [] w = "But Actually no" -> "but actually no"
      [] w = "100% Certain" -> "100% certain"
      [] w = "I don't have access" -> "i don't have access"
      [] w = "As an AI" -> "as an ai"
      [] w = "I cannot verify" -> "i cannot verify"
      [] w = "I'm not sure" -> "i'm not sure"
      [] w = "I think" -> "i think"
      [] w = "In my opinion" -> "in my opinion"
      [] w = "I don't know" -> "i don't know"
      [] w = "I DON'T KNOW" -> "i don't know"
      [] w = "Possibly" -> "possibly"
      [] OTHER -> w

\* sha256 of the trimmed, lower-cased query: equal exactly for equal lower-cased text.
compute_query_hash(query) == [i \in DOMAIN query |-> to_lowercase(query[i])]

word_set(query) == {to_lowercase(query[i]) : i \in DOMAIN query}

\* |intersection| / |union| of the lower-cased word sets, in percent.
compute_similarity(query1, query2) ==
    LET q1_words == word_set(query1)
        q2_words == word_set(query2)
    IN  IF q1_words = {} \/ q2_words = {} THEN 0
        ELSE (100 * Cardinality(q1_words \cap q2_words))
                \div Cardinality(q1_words \cup q2_words)

ttl_seconds(category) ==
    CASE category = "Factual" -> 7 * 24 * 3600
      [] category = "PriceData" -> 300
      [] category = "Technical" -> 24 * 3600
      [] category = "GeneralQA" -> 12 * 3600
      [] category = "TimeSensitive" -> 60

\* An entry that expires one second later than its expires_at.
is_expired_late(entry, t) == t > entry.expires_at + 1

\* CacheEntry::is_expired at Utc::now() = t
is_expired(entry, t) == t > entry.expires_at

\* HashMap::insert under the entry's query hash
insert(cache, entry) == {e \in cache : e.query_hash # entry.query_hash} \cup {entry}

RECURSIVE oldest(_, _)
oldest(cache, n) ==
    IF n = 0 \/ cache = {} THEN {}
    ELSE LET e == CHOOSE x \in cache : \A y \in cache : x.created_at <= y.created_at
         IN  {e} \cup oldest(cache \ {e}, n - 1)

evict_if_needed(cache, t) ==
    IF Cardinality(cache) >= cache_config.local_cache_size
    THEN LET retained == {e \in cache : ~is_expired(e, t)}
         IN  IF Cardinality(retained) >= cache_config.local_cache_size
             THEN retained \ oldest(retained, Cardinality(retained) \div 10)
             ELSE retained
    ELSE cache

\* semantic_search: the unexpired local entries of greatest similarity above the
\* threshold (the first of them in the map's iteration order is returned).
semantic_search(query, t) ==
    LET above == {e \in local_cache :
                     /\ ~is_expired(e, t)
                     /\ compute_similarity(query, e.query) >= SIMILARITY_THRESHOLD_PCT}
    IN  {e \in above : \A o \in above :
            compute_similarity(query, e.query) >= compute_similarity(query, o.query)}

\* What GET tro:cache:<hash> can answer.  The key set with SETEX is dropped by the
\* Redis server on its own clock once the time to live has run out, so around
\* the expiry the key may or may not still be there; the connection may fail.
lookup_redis(query_hash, t) ==
    {[kind |-> "Err", entry |-> NoEntry]}
    \cup {[kind |-> "Some", entry |-> e] : e \in {r \in redis_store : r.query_hash = query_hash}}
    \cup (IF \A r \in redis_store : r.query_hash = query_hash => t >= r.expires_at
          THEN {[kind |-> "None", entry |-> NoEntry]} ELSE {})

\* The stored entries a query matches: by hash in either layer, by similarity in
\* the local layer.
matching_entries(query) ==
    {e \in local_cache \cup redis_store : e.query_hash = compute_query_hash(query)}
    \cup {e \in local_cache :
             compute_similarity(query, e.query) >= SIMILARITY_THRESHOLD_PCT}

Advance(d) ==
    /\ cache_ticks < MaxCacheTicks
    /\ utc_now' = utc_now + d
    /\ cache_ticks' = cache_ticks + 1
    /\ UNCHANGED <<cache_config, local_cache, redis_store, lookup_result, store_result>>
    /\ UNCHANGED outside_cache

\* store with the outcome of the SETEX of store_redis: "none" without a Redis
\* connection, else "Ok" or "Err".  The ? after store_redis returns its error
\* before the local layer is touched.
store(query, category, redis_write) ==
    LET entry == [query |-> query, query_hash |-> compute_query_hash(query),
                  category |-> category, created_at |-> utc_now,
                  expires_at |-> utc_now + ttl_seconds(category)]
        result == IF redis_write = "Err" THEN "Err" ELSE "Ok"
    IN  /\ (redis_write = "none") = ~cache_config.redis
        /\ redis_store' = IF redis_write = "Ok" THEN insert(redis_store, entry)
                          ELSE redis_store
        /\ local_cache' = IF result = "Ok" /\ cache_config.enable_local_cache
                          THEN insert(evict_if_needed(local_cache, utc_now), entry)
                          ELSE local_cache
        /\ store_result' = [query |-> query, redis_write |-> redis_write, result |-> result,
                            in_local |-> entry \in local_cache']
        /\ UNCHANGED <<utc_now, cache_ticks, cache_config, lookup_result>>
        /\ UNCHANGED outside_cache

lookup(query) ==
    LET query_hash == compute_query_hash(query)
        local == {e \in local_cache : e.query_hash = query_hash /\ ~is_expired(e, utc_now)}
        result(hit, entry, layer) ==
            [query |-> query, at |-> utc_now, hit |-> hit, entry |-> entry,
             layer |-> layer, matching |-> matching_entries(query)]
    IN  /\ IF cache_config.enable_local_cache /\ local # {}
           THEN /\ lookup_result' = result(TRUE, CHOOSE e \in local : TRUE, "local")
                /\ UNCHANGED local_cache
           ELSE \E reply \in (IF cache_config.redis THEN lookup_redis(query_hash, utc_now)
                              ELSE {[kind |-> "None", entry |-> NoEntry]}) :
                   IF reply.kind = "Some" /\ ~is_expired(reply.entry, utc_now)
                   THEN /\ lookup_result' = result(TRUE, reply.entry, "redis")
                        /\ local_cache' =
                              IF cache_config.enable_local_cache
                              THEN insert(evict_if_needed(local_cache, utc_now), reply.entry)
                              ELSE local_cache
                   ELSE /\ IF semantic_search(query, utc_now) # {}
                           THEN \E entry \in semantic_search(query, utc_now) :
                                   lookup_result' = result(TRUE, entry, "semantic")
                           ELSE lookup_result' = result(FALSE, NoEntry, "none")
                        /\ UNCHANGED local_cache
        /\ UNCHANGED <<utc_now, cache_ticks, cache_config, redis_store, store_result>>
        /\ UNCHANGED outside_cache

\* DEL fails with the connection: the local entry is gone, the Redis key stays.
invalidate(query, redis_ok) ==
    LET query_hash == compute_query_hash(query)
    IN  /\ local_cache' = {e \in local_cache : e.query_hash # query_hash}
        /\ redis_store' = IF cache_config.redis /\ redis_ok
                          THEN {e \in redis_store : e.query_hash # query_hash}
                          ELSE redis_store
        /\ UNCHANGED <<utc_now, cache_ticks, cache_config, lookup_result, store_result>>
        /\ UNCHANGED outside_cache

NextCache ==
    \/ \E d \in CacheTimeSteps : Advance(d)
    \/ \E q \in StoreQueries, c \in CacheCategories, w \in RedisWrites : store(q, c, w)
    \/ \E q \in LookupQueries : lookup(q)
    \/ \E q \in InvalidateQueries, ok \in BOOLEAN : invalidate(q, ok)

CacheInit ==
    /\ ProgramInit
    /\ \E config \in CacheConfigs : CacheNew(config)
    /\ KgNew(DefaultKgConfig)
    /\ RouterNew
    /\ ZkNew(DefaultZkConfig)
    /\ VerificationNew(DefaultVerificationConfig)
    /\ IpfsNew(DefaultIpfsConfig)

SpecCache == CacheInit /\ [][NextCache]_vars

(***************************************************************************)
(* The knowledge graph (src/backend/src/services/knowledge_graph_service.rs). *)
(* entities is the HashMap keyed by entity id, label_index the HashMap from   *)
(* lower-cased label to entity id, triplets the HashSet.  Every action is one *)
(* critical section: the locks it takes are free again when it ends.  The     *)
(* timestamps of a triplet and the statistics counters are written only.      *)
(* fact_verification and merkle_roots hold what the most recent calls         *)
(* returned: a call of another operation clears them.                         *)
(***************************************************************************)
TRANSITIVE == {"is_a", "part_of", "located_in", "equal_to"}

is_multi_valued(predicate) ==
    to_lowercase(predicate) \in {"has", "contains", "part_of", "related_to"}

canonical(t) == <<to_lowercase(t.subject), to_lowercase(t.predicate), to_lowercase(t.object)>>

entity_exists(label) == \E i \in label_index : i.label = to_lowercase(label)

\* HashMap::insert(key, value) on the label index
index_insert(index, label, id) ==
    {i \in index : i.label # label} \cup {[label |-> label, id |-> id]}

auto_entity(label) == [id |-> <<"auto", to_lowercase(label)>>, label |-> label, aliases |-> {}]

add_entity_result(entity) ==
    IF Cardinality(entities) >= kg_config.max_memory_entities THEN "Entity capacity exceeded"
    ELSE "Ok"

RECURSIVE index_aliases(_, _, _)
index_aliases(index, aliases, id) ==
    IF aliases = {} THEN index
    ELSE LET alias == CHOOSE a \in aliases : TRUE
         IN  index_aliases(index_insert(index, to_lowercase(alias), id), aliases \ {alias}, id)

\* HashMap::insert(entity.id, entity) on the entities
entities_insert(entity_map, entity) ==
    {e \in entity_map : e.id # entity.id} \cup {[id |-> entity.id, label |-> entity.label]}

\* The label and the aliases of the entity indexed.
index_entity(index, entity) ==
    index_aliases(index_insert(index, to_lowercase(entity.label), entity.id),
                  entity.aliases, entity.id)

\* The two maps after a successful add_entity.
add_entity_entities(entity) == entities_insert(entities, entity)

add_entity_index(entity) == index_entity(label_index, entity)

add_entity(entity) ==
    /\ add_entity_result(entity) = "Ok"
    /\ entities' = add_entity_entities(entity)
    /\ label_index' = add_entity_index(entity)
    /\ kg_last' = [op |-> "add_entity", triplet |-> NoTriplet, result |-> "Ok"]
    /\ fact_verification' = NoFactVerification
    /\ merkle_roots' = NoMerkleRoots
    /\ UNCHANGED <<kg_config, triplets, add_triplet_pc, add_triplet_call>>
    /\ UNCHANGED outside_kg

\* add_triplet takes and releases the locks once per step: the subject's entity,
\* the object's entity, the insertion.
add_triplet_begin(triplet) ==
    /\ add_triplet_pc = "idle"
    /\ add_triplet_pc' = "subject"
    /\ add_triplet_call' = [triplet |-> triplet, created |-> {}, result |-> "Ok"]
    /\ fact_verification' = NoFactVerification
    /\ merkle_roots' = NoMerkleRoots
    /\ UNCHANGED <<kg_config, entities, label_index, triplets, kg_last>>
    /\ UNCHANGED outside_kg

\* One of the two "if !entity_exists { add_entity(..).await? }" of add_triplet.
add_triplet_entity(pc, label, next_pc) ==
    LET entity == auto_entity(label)
        triplet == add_triplet_call.triplet
    IN  /\ add_triplet_pc = pc
        /\ IF entity_exists(label)
           THEN /\ add_triplet_pc' = next_pc
                /\ UNCHANGED <<entities, label_index, add_triplet_call, kg_last>>
           ELSE IF add_entity_result(entity) = "Ok"
           THEN /\ add_triplet_pc' = next_pc
                /\ entities' = add_entity_entities(entity)
                /\ label_index' = add_entity_index(entity)
                /\ add_triplet_call' = [add_triplet_call EXCEPT !.created = @ \cup {entity.id}]
                /\ UNCHANGED kg_last
           ELSE /\ add_triplet_pc' = "idle"
                /\ add_triplet_call' =
                      [add_triplet_call EXCEPT !.result = add_entity_result(entity)]
                /\ kg_last' = [op |-> "add_triplet", triplet |-> triplet,
                               result |-> add_entity_result(entity)]
                /\ UNCHANGED <<entities, label_index>>
        /\ fact_verification' = NoFactVerification
        /\ merkle_roots' = NoMerkleRoots
        /\ UNCHANGED <<kg_config, triplets>>
        /\ UNCHANGED outside_kg

add_triplet_subject == add_triplet_entity("subject", add_triplet_call.triplet.subject, "object")

add_triplet_object == add_triplet_entity("object", add_triplet_call.triplet.object, "insert")

add_triplet_insert ==
    /\ add_triplet_pc = "insert"
    /\ triplets' = triplets \cup {add_triplet_call.triplet}
    /\ add_triplet_pc' = "idle"
    /\ kg_last' = [op |-> "add_triplet", triplet |-> add_triplet_call.triplet, result |-> "Ok"]
    /\ fact_verification' = NoFactVerification
    /\ merkle_roots' = NoMerkleRoots
    /\ UNCHANGED <<kg_config, entities, label_index, add_triplet_call>>
    /\ UNCHANGED outside_kg

direct_matches(claim, stored_triplets) ==
    {stored \in stored_triplets : canonical(stored) = canonical(claim)}

contradictions(claim, stored_triplets) ==
    {stored \in stored_triplets :
        /\ to_lowercase(stored.subject) = to_lowercase(claim.subject)
        /\ to_lowercase(stored.predicate) = to_lowercase(claim.predicate)
        /\ to_lowercase(stored.object) # to_lowercase(claim.object)
        /\ ~is_multi_valued(stored.predicate)}

\* The two-hop paths find_transitive_path can return (the first one it meets in
\* the iteration order of the HashSet).
find_transitive_path(claim, stored_triplets) ==
    IF to_lowercase(claim.predicate) \notin TRANSITIVE THEN {}
    ELSE {<<t1, t2>> \in stored_triplets \X stored_triplets :
             /\ to_lowercase(t1.subject) = to_lowercase(claim.subject)
             /\ to_lowercase(t1.predicate) = to_lowercase(claim.predicate)
             /\ to_lowercase(t2.subject) = to_lowercase(t1.object)
             /\ to_lowercase(t2.predicate) = to_lowercase(claim.predicate)
             /\ to_lowercase(t2.object) = to_lowercase(claim.object)}

RECURSIVE SeqOfSet(_)
SeqOfSet(S) ==
    IF S = {} THEN <<>>
    ELSE LET x == CHOOSE y \in S : TRUE IN <<x>> \o SeqOfSet(S \ {x})

RECURSIVE sum_confidence(_)
sum_confidence(supporting) ==
    IF supporting = <<>> THEN 0
    ELSE Head(supporting).confidence + sum_confidence(Tail(supporting))

\* The confidence in basis points, rounded down.
confidence_of(supporting, contradicting) ==
    IF supporting # <<>> /\ contradicting = {}
    THEN sum_confidence(supporting) \div Len(supporting)
    ELSE IF contradicting # {} THEN 0
    ELSE UNKNOWN_CONFIDENCE_BPS

\* verify_fact with the supporting triplets it collected.
fact_verification_of(claim, supporting, stored_triplets) ==
    LET contradicting == contradictions(claim, stored_triplets)
        confidence == confidence_of(supporting, contradicting)
    IN  [claim |-> claim,
         supported |-> confidence >= ACCEPTANCE_THRESHOLD,
         confidence_bps |-> confidence,
         supporting |-> supporting,
         contradicting |-> contradicting,
         direct |-> direct_matches(claim, stored_triplets),
         paths |-> find_transitive_path(claim, stored_triplets),
         after_add |-> kg_last = [op |-> "add_triplet", triplet |-> claim, result |-> "Ok"]]

\* The results verify_fact can return on a set of stored triplets.
verify_fact_results(claim, stored_triplets) ==
    LET direct == direct_matches(claim, stored_triplets)
        paths == find_transitive_path(claim, stored_triplets)
    IN  IF direct # {} \/ paths = {}
        THEN {fact_verification_of(claim, SeqOfSet(direct), stored_triplets)}
        ELSE {fact_verification_of(claim, path, stored_triplets) : path \in paths}

verify_fact(claim) ==
    /\ \E result \in verify_fact_results(claim, triplets) : fact_verification' = result
    /\ kg_last' = [op |-> "verify_fact", triplet |-> claim, result |-> "Ok"]
    /\ merkle_roots' = NoMerkleRoots
    /\ UNCHANGED <<kg_config, entities, label_index, triplets, add_triplet_pc,
                   add_triplet_call>>
    /\ UNCHANGED outside_kg

\* Sha256 as an injective numbering of the texts hashed; the bytes hashed for a
\* triplet are subject, predicate and object as given.
sha256_text(w) ==
    CASE w = "Paris" -> 4
      [] w = "paris" -> 1
      [] w = "France" -> 3
      [] w = "Europe" -> 2
      [] w = "located_in" -> 1
      [] w = "part_of" -> 2
      [] OTHER -> 0

hash(t) == <<sha256_text(t.subject) + 5 * sha256_text(t.predicate) + 15 * sha256_text(t.object)>>

ZERO_HASH == <<0>>

\* The hashes as collected, in the order of the iteration.
unsorted(hashes) == hashes

RECURSIVE sort(_)
sort(hashes) ==
    IF hashes = <<>> THEN <<>>
    ELSE LET least == CHOOSE i \in DOMAIN hashes :
                         \A j \in DOMAIN hashes : hashes[i][1] <= hashes[j][1]
         IN  <<hashes[least]>>
             \o sort(SubSeq(hashes, 1, least - 1) \o SubSeq(hashes, least + 1, Len(hashes)))

\* One level of the tree: the hash of each pair, an odd last one paired with itself.
RECURSIVE next_level(_)
next_level(hashes) ==
    IF hashes = <<>> THEN <<>>
    ELSE IF Len(hashes) = 1 THEN <<hashes[1] \o hashes[1]>>
    ELSE <<hashes[1] \o hashes[2]>> \o next_level(SubSeq(hashes, 3, Len(hashes)))

RECURSIVE merkle_tree(_)
merkle_tree(hashes) == IF Len(hashes) > 1 THEN merkle_tree(next_level(hashes)) ELSE hashes[1]

\* The orders in which the HashSet can be iterated.
iteration_orders(S) ==
    {order \in [1..Cardinality(S) -> S] : \A i, j \in DOMAIN order : order[i] = order[j] => i = j}

merkle_root_of(order) ==
    IF order = <<>> THEN ZERO_HASH
    ELSE merkle_tree(sort([i \in DOMAIN order |-> hash(order[i])]))

compute_merkle_root(order) ==
    /\ merkle_roots' =
          [roots |-> merkle_roots.roots \cup {merkle_root_of(order)},
           order |-> order,
           reordered |-> merkle_roots.reordered
                         \/ (merkle_roots.roots # {} /\ merkle_roots.order # order)]
    /\ kg_last' = [op |-> "compute_merkle_root", triplet |-> NoTriplet, result |-> "Ok"]
    /\ fact_verification' = NoFactVerification
    /\ UNCHANGED <<kg_config, entities, label_index, triplets, add_triplet_pc,
                   add_triplet_call>>
    /\ UNCHANGED outside_kg

NextKg ==
    \/ \E entity \in AddedEntities : add_entity(entity)
    \/ \E triplet \in AddedTriplets : add_triplet_begin(triplet)
    \/ add_triplet_subject
    \/ add_triplet_object
    \/ add_triplet_insert
    \/ \E claim \in ClaimedTriplets : verify_fact(claim)

KgInit ==
    /\ ProgramInit
    /\ CacheNew(DefaultCacheConfig)
    /\ \E config \in KgConfigs : KgNew(config)
    /\ RouterNew
    /\ ZkNew(DefaultZkConfig)
    /\ VerificationNew(DefaultVerificationConfig)
    /\ IpfsNew(DefaultIpfsConfig)

SpecKg == KgInit /\ [][NextKg]_vars

NextMerkle ==
    \/ \E triplet \in HashedTriplets : add_triplet_begin(triplet)
    \/ add_triplet_subject
    \/ add_triplet_object
    \/ add_triplet_insert
    \/ \E order \in iteration_orders(triplets) : compute_merkle_root(order)

SpecMerkle == KgInit /\ [][NextMerkle]_vars

(***************************************************************************)
(* The model router (src/backend/src/services/reasoning_service.rs).         *)
(* model_status is the HashMap of the tiers whose availability was set; a    *)
(* tier without an entry counts as available.                                *)
(***************************************************************************)
strategy_matrix(workflow, bucket) ==
    CASE workflow = "ExpressLocal" -> <<"Local7B", "Local7B", "Local13B", "Local13B">>[bucket + 1]
      [] workflow = "Standard" -> <<"Local7B", "Local13B", "Local13B", "Local70B">>[bucket + 1]
      [] workflow = "HighPrecision" ->
            <<"Local13B", "Local70B", "Local70B", "CloudAPI">>[bucket + 1]
      [] workflow = "MissionCritical" ->
            <<"CloudAPI", "CloudAPI", "CloudAPI", "CloudAPI">>[bucket + 1]

complexity_bucket(complexity_score) ==
    IF complexity_score <= 2500 THEN 0
    ELSE IF complexity_score <= 5000 THEN 1
    ELSE IF complexity_score <= 7500 THEN 2
    ELSE 3

\* status.get(&tier).copied().unwrap_or(true)
available(status, tier) == IF tier \in DOMAIN status THEN status[tier] ELSE TRUE

fallback_order == <<"Local7B", "Local13B", "Local70B", "CloudAPI">>

find_fallback(preferred, status) ==
    LET candidates == {i \in DOMAIN fallback_order :
                          fallback_order[i] # preferred /\ available(status, fallback_order[i])}
    IN  IF candidates = {} THEN preferred
        ELSE fallback_order[CHOOSE i \in candidates : \A j \in candidates : i <= j]

route_tier(workflow, complexity_score, status) ==
    LET base_tier == strategy_matrix(workflow, complexity_bucket(complexity_score))
    IN  IF available(status, base_tier) THEN base_tier ELSE find_fallback(base_tier, status)

route(workflow, complexity_score) ==
    /\ routing_decision' =
          [workflow |-> workflow, complexity_score |-> complexity_score,
           status |-> model_status,
           tier |-> route_tier(workflow, complexity_score, model_status)]
    /\ UNCHANGED <<model_status, confidence_estimate>>
    /\ UNCHANGED outside_router

set_model_status(tier, is_available) ==
    /\ model_status' = [t \in DOMAIN model_status \cup {tier} |->
                           IF t = tier THEN is_available ELSE model_status[t]]
    /\ UNCHANGED <<routing_decision, confidence_estimate>>
    /\ UNCHANGED outside_router

NextRouter ==
    \/ \E workflow \in WorkflowClasses, complexity_score \in ComplexityScores :
          route(workflow, complexity_score)
    \/ \E tier \in StatusTiers, is_available \in BOOLEAN : set_model_status(tier, is_available)

SpecRouter == Init /\ [][NextRouter]_vars

\* str::contains on the text fragments: "it might be so" contains "might be".
contains(text, pattern) ==
    \/ text = pattern
    \/ text = "it might be so" /\ pattern = "might be"
    \/ text = "but actually no" /\ pattern = "but actually"

UNCERTAIN_PHRASES == {"I'm not sure", "I don't know", "possibly", "might be"}

\* The phrases p with response.to_lowercase().contains(p).
uncertain_found(response) ==
    {p \in UNCERTAIN_PHRASES :
        \E f \in response.fragments : contains(to_lowercase(f), p)}

estimate_confidence_of(tier, response) ==
    LET base == CASE tier = "Local7B" -> 6000
                  [] tier = "Local13B" -> 7500
                  [] tier = "Local70B" -> 8500
                  [] tier = "CloudAPI" -> 9500
        short == IF response.len < 50 THEN Max(base - 1000, 0) ELSE base
        confidence == Max(short - 500 * Cardinality(uncertain_found(response)), 0)
    IN  Min(confidence, 10000)

estimate_confidence(tier, response) ==
    /\ confidence_estimate' = [tier |-> tier, response |-> response,
                               confidence |-> estimate_confidence_of(tier, response)]
    /\ UNCHANGED <<model_status, routing_decision>>
    /\ UNCHANGED outside_router

NextConfidence == \E tier \in ModelTiers, response \in Responses : estimate_confidence(tier, response)

SpecConfidence == Init /\ [][NextConfidence]_vars

(***************************************************************************)
(* The verification service (src/backend/src/services/verification_service.rs). *)
(* A response is the set of its text fragments and the sequence of its          *)
(* sentences, each <<subject, pattern, object>>; scores are in basis points.    *)
(* verify calls the knowledge graph; a graph is the record of its three maps.   *)
(***************************************************************************)
SELF_CONTRADICTIONS == {"but actually", "however, that's wrong"}

IMPOSSIBLE_PATTERNS ==
    {"100% certain", "absolutely guaranteed", "impossible to fail", "never wrong"}

hallucination_reasons(fragments, config) ==
    LET response_lower == {to_lowercase(f) : f \in fragments}
        found(patterns) ==
            {p \in patterns : \E f \in response_lower : contains(f, to_lowercase(p))}
    IN  found(config.hallucination_indicators) \cup found(SELF_CONTRADICTIONS)
        \cup found(IMPOSSIBLE_PATTERNS)

\* Hallucination detection that finds nothing.
detect_nothing(fragments, config) == FALSE

detect_hallucinations(fragments, config) ==
    IF ~config.enable_hallucination_detection THEN FALSE
    ELSE hallucination_reasons(fragments, config) # {}

\* extract_triplets on one sentence of the response.
extract_pattern(sentence) ==
    CASE sentence[2] = " is " -> Triplet(sentence[1], "is_a", sentence[3], 7000, "LLMExtraction")
      [] sentence[2] = " located in " ->
            Triplet(sentence[1], "located_in", sentence[3], 6500, "LLMExtraction")
      [] sentence[2] = " has " -> Triplet(sentence[1], "has", sentence[3], 6000, "LLMExtraction")
      [] sentence[2] = "=" -> Triplet(sentence[1], "equal_to", sentence[3], 9000, "LLMExtraction")

extract_triplets(sentences) == [i \in DOMAIN sentences |-> extract_pattern(sentences[i])]

\* The sums compute_kg_score can reach: one verify_fact per extracted triplet.
RECURSIVE kg_score_sums(_, _)
kg_score_sums(extracted, stored_triplets) ==
    IF extracted = <<>> THEN {[total |-> 0, count |-> 0]}
    ELSE {IF v.supported
          THEN [total |-> rest.total + v.confidence_bps, count |-> rest.count + 1]
          ELSE rest :
             v \in verify_fact_results(Head(extracted), stored_triplets),
             rest \in kg_score_sums(Tail(extracted), stored_triplets)}

compute_kg_score(extracted, stored_triplets) ==
    IF extracted = <<>> THEN {5000}
    ELSE {IF sum.count = 0 THEN 5000 ELSE sum.total \div sum.count :
             sum \in kg_score_sums(extracted, stored_triplets)}

compute_semantic_score(request) ==
    LET length_score == IF request.response_len < 20 THEN 3000
                        ELSE IF request.response_len < 100 THEN 7000
                        ELSE 10000
    IN  Min(10000, (request.query_coverage * 7 + length_score * 3) \div 10)

RECURSIVE sum_cross(_, _)
sum_cross(results, agreeing_only) ==
    IF results = <<>> THEN 0
    ELSE (IF agreeing_only /\ ~Head(results).agrees THEN 0 ELSE Head(results).confidence)
         + sum_cross(Tail(results), agreeing_only)

compute_fact_consistency(results) ==
    IF results = <<>> THEN 7000
    ELSE IF sum_cross(results, FALSE) = 0 THEN 5000
    ELSE (10000 * sum_cross(results, TRUE)) \div sum_cross(results, FALSE)

\* The weights of the default configuration, in tenths.
final_score_bps_of(semantic_score, fact_consistency_score, kg_match_score, detected) ==
    LET weighted_score ==
            (semantic_score * 3 + fact_consistency_score * 4 + kg_match_score * 3)
            \div (3 + 4 + 3)
    IN  IF detected THEN weighted_score \div 2 ELSE weighted_score

\* add_entity on a graph: the graph afterwards (unchanged at full capacity).
add_entity_in(graph, entity) ==
    IF Cardinality(graph.entities) >= kg_config.max_memory_entities THEN graph
    ELSE [graph EXCEPT !.entities = entities_insert(@, entity),
                       !.label_index = index_entity(@, entity)]

\* One "if !entity_exists { add_entity }" of add_triplet on a graph.
ensure_entity_in(graph, label) ==
    IF \E i \in graph.label_index : i.label = to_lowercase(label) THEN graph
    ELSE add_entity_in(graph, auto_entity(label))

\* add_triplet on a graph, its Result dropped by the caller.
add_triplet_in(graph, triplet) ==
    LET with_subject == ensure_entity_in(graph, triplet.subject)
        subject_ok == \E i \in with_subject.label_index : i.label = to_lowercase(triplet.subject)
        with_object == ensure_entity_in(with_subject, triplet.object)
        object_ok == \E i \in with_object.label_index : i.label = to_lowercase(triplet.object)
    IN  IF ~subject_ok THEN with_subject
        ELSE IF ~object_ok THEN with_object
        ELSE [with_object EXCEPT !.triplets = @ \cup {triplet}]

RECURSIVE add_triplets_in(_, _)
add_triplets_in(graph, extracted) ==
    IF extracted = <<>> THEN graph
    ELSE add_triplets_in(add_triplet_in(graph, Head(extracted)), Tail(extracted))

verify(request) ==
    LET extracted == extract_triplets(request.sentences)
        detected == detect_hallucinations(request.fragments, verification_config)
        graph == [entities |-> entities, label_index |-> label_index, triplets |-> triplets]
    IN  \E kg_match_score \in compute_kg_score(extracted, triplets) :
           LET final_score_bps ==
                   final_score_bps_of(compute_semantic_score(request),
                                      compute_fact_consistency(request.cross_results),
                                      kg_match_score, detected)
               passed == final_score_bps >= verification_config.min_pass_score /\ ~detected
               after == IF passed THEN add_triplets_in(graph, extracted) ELSE graph
           IN  /\ entities' = after.entities
               /\ label_index' = after.label_index
               /\ triplets' = after.triplets
               /\ verification_result' =
                     [fragments |-> request.fragments, passed |-> passed,
                      final_score_bps |-> final_score_bps,
                      hallucination_detected |-> detected,
                      extracted_triplets |-> extracted,
                      kg_modified |-> after # graph]
               /\ kg_last' = [op |-> "verify", triplet |-> NoTriplet, result |-> "Ok"]
               /\ fact_verification' = NoFactVerification
               /\ merkle_roots' = NoMerkleRoots
               /\ UNCHANGED <<kg_config, add_triplet_pc, add_triplet_call, verification_config>>
               /\ UNCHANGED outside_verification

NextVerification ==
    \/ \E triplet \in VerifiedTriplets : add_triplet_begin(triplet)
    \/ add_triplet_subject
    \/ add_triplet_object
    \/ add_triplet_insert
    \/ \E request \in VerificationRequests : verify(request)

VerificationInit ==
    /\ ProgramInit
    /\ CacheNew(DefaultCacheConfig)
    /\ KgNew(DefaultKgConfig)
    /\ RouterNew
    /\ ZkNew(DefaultZkConfig)
    /\ \E config \in VerificationConfigs : VerificationNew(config)
    /\ IpfsNew(DefaultIpfsConfig)

SpecVerification == VerificationInit /\ [][NextVerification]_vars

(***************************************************************************)
(* The IPFS service (src/backend/src/services/ipfs_service.rs).  A stored    *)
(* object is either raw bytes or the JSON text of a manifest; its CID is its *)
(* content, so ipfs is the set of the objects stored.  The node stores and   *)
(* serves every object; sizes are scaled down.                               *)
(***************************************************************************)
Raw(bytes) == [json |-> FALSE, bytes |-> bytes, compression |-> "None", chunks |-> <<>>]

Manifest(compression, chunk_cids) ==
    [json |-> TRUE, bytes |-> <<>>, compression |-> compression, chunks |-> chunk_cids]

\* The length of the first run of equal bytes of a non-empty string.
RECURSIVE first_run(_)
first_run(data) ==
    IF Len(data) >= 2 /\ data[2] = data[1] THEN 1 + first_run(Tail(data)) ELSE 1

\* The compressors as run-length coders: each run is written as <<length, byte>>.
RECURSIVE deflate(_)
deflate(data) ==
    IF data = <<>> THEN <<>>
    ELSE <<first_run(data), data[1]>>
         \o deflate(SubSeq(data, first_run(data) + 1, Len(data)))

RECURSIVE inflate(_)
inflate(coded) ==
    IF coded = <<>> THEN <<>>
    ELSE [i \in 1..coded[1] |-> coded[2]] \o inflate(SubSeq(coded, 3, Len(coded)))

\* GzEncoder: the magic bytes, then the coded data.
gzip(data) == GZIP_MAGIC \o deflate(data)

brotli(data) == deflate(data)

compress(data) ==
    LET compressed == IF ipfs_config.compression_method = "Gzip" THEN gzip(data)
                      ELSE brotli(data)
    IN  IF ipfs_config.compression_method # "None" /\ Len(compressed) < Len(data)
        THEN [data |-> compressed, method |-> ipfs_config.compression_method]
        ELSE [data |-> data, method |-> "None"]

\* GzDecoder fails on what is no gzip stream.
decompress_gzip(raw) ==
    IF Len(raw) >= 2 /\ SubSeq(raw, 1, 2) = GZIP_MAGIC /\ (Len(raw) - 2) % 2 = 0
       /\ \A i \in 3..Len(raw) : (i % 2 = 1) => raw[i] > 0
    THEN [result |-> "Ok", data |-> inflate(SubSeq(raw, 3, Len(raw)))]
    ELSE [result |-> "Err", data |-> <<>>]

\* data.chunks(chunk_size)
RECURSIVE chunks(_, _)
chunks(data, chunk_size) ==
    IF Len(data) <= chunk_size THEN (IF data = <<>> THEN <<>> ELSE <<data>>)
    ELSE <<SubSeq(data, 1, chunk_size)>>
         \o chunks(SubSeq(data, chunk_size + 1, Len(data)), chunk_size)

\* What upload_bytes stores and the CID it returns.
upload_of(data) ==
    LET stored == IF ipfs_config.enable_compression
                     /\ Len(data) >= ipfs_config.compression_threshold
                  THEN compress(data)
                  ELSE [data |-> data, method |-> "None"]
        parts == chunks(stored.data, ipfs_config.chunk_size)
        chunk_cids == [i \in DOMAIN parts |-> Raw(parts[i])]
    IN  IF Len(data) > ipfs_config.max_size
        THEN [result |-> "Err", cid |-> Raw(<<>>), objects |-> {}]
        ELSE IF Len(stored.data) > ipfs_config.chunk_size
        THEN [result |-> "Ok", cid |-> Manifest(stored.method, chunk_cids),
              objects |-> {chunk_cids[i] : i \in DOMAIN chunk_cids}
                          \cup {Manifest(stored.method, chunk_cids)}]
        ELSE [result |-> "Ok", cid |-> Raw(stored.data), objects |-> {Raw(stored.data)}]

RECURSIVE concat_chunks(_)
concat_chunks(chunk_cids) ==
    IF chunk_cids = <<>> THEN <<>>
    ELSE Head(chunk_cids).bytes \o concat_chunks(Tail(chunk_cids))

retrieve_chunked(manifest, objects) ==
    IF \E i \in DOMAIN manifest.chunks : manifest.chunks[i] \notin objects
    THEN [result |-> "Err", data |-> <<>>]
    ELSE IF manifest.compression = "Gzip"
    THEN decompress_gzip(concat_chunks(manifest.chunks))
    ELSE [result |-> "Ok", data |-> concat_chunks(manifest.chunks)]

retrieve_bytes_of(cid, objects) ==
    IF cid \notin objects THEN [result |-> "Err", data |-> <<>>]
    ELSE IF ~cid.json /\ Len(cid.bytes) >= 2 /\ SubSeq(cid.bytes, 1, 2) = GZIP_MAGIC
    THEN decompress_gzip(cid.bytes)
    ELSE IF cid.json THEN retrieve_chunked(cid, objects)
    ELSE [result |-> "Ok", data |-> cid.bytes]

upload_bytes(data) ==
    /\ Cardinality(uploaded) < MaxUploads
    /\ upload_of(data).result = "Ok"
    /\ ipfs' = ipfs \cup upload_of(data).objects
    /\ uploaded' = uploaded \cup {[data |-> data, cid |-> upload_of(data).cid]}
    /\ UNCHANGED <<ipfs_config, retrieved>>
    /\ UNCHANGED outside_ipfs

upload_bytes_rejected(data) ==
    /\ upload_of(data).result = "Err"
    /\ retrieved' = [cid |-> Raw(data), result |-> "upload: Content exceeds maximum size limit",
                     data |-> <<>>]
    /\ UNCHANGED <<ipfs_config, ipfs, uploaded>>
    /\ UNCHANGED outside_ipfs

retrieve_bytes(cid) ==
    /\ retrieved' = [cid |-> cid, result |-> retrieve_bytes_of(cid, ipfs).result,
                     data |-> retrieve_bytes_of(cid, ipfs).data]
    /\ UNCHANGED <<ipfs_config, ipfs, uploaded>>
    /\ UNCHANGED outside_ipfs

NextIpfs ==
    \/ \E data \in Payloads : upload_bytes(data)
    \/ \E data \in Payloads : upload_bytes_rejected(data)
    \/ \E cid \in ipfs : retrieve_bytes(cid)

IpfsInit ==
    /\ ProgramInit
    /\ CacheNew(DefaultCacheConfig)
    /\ KgNew(DefaultKgConfig)
    /\ RouterNew
    /\ ZkNew(DefaultZkConfig)
    /\ VerificationNew(DefaultVerificationConfig)
    /\ \E config \in IpfsConfigs : IpfsNew(config)

SpecIpfs == IpfsInit /\ [][NextIpfs]_vars

(***************************************************************************)
(* The proof service (backend/src/services/zk_proof_service.rs).  sha256 is *)
(* kept as the tuple of what was fed to the hasher; hashes are short byte   *)
(* sequences.  The proof cache is a map from task id to proof, kept as the  *)
(* set of cached proofs; every prover backend falls back to the mock one.   *)
(***************************************************************************)
\* u64 / i64 / u16 ::to_le_bytes for a value >= 0: n bytes, lowest first
RECURSIVE to_le_bytes(_, _)
to_le_bytes(value, n) ==
    IF n = 0 THEN <<>> ELSE <<value % 256>> \o to_le_bytes(value \div 256, n - 1)

\* public_inputs of generate_mock_proof
public_inputs_of(input) ==
    input.prompt_hash \o input.output_hash \o to_le_bytes(input.timestamp, 8)
       \o to_le_bytes(input.verification_score, 2)

generate_mock_proof(input) ==
    [proof_id |-> <<"mock", input.task_id, input.timestamp>>,
     task_id |-> input.task_id,
     proof_seed |-> <<input.prompt_hash, input.output_hash, input.model_id, input.timestamp>>,
     public_inputs |-> public_inputs_of(input),
     proof_type |-> "mock_groth16",
     vk_hash |-> <<"mock_vk_", input.model_id>>]

\* cache.get(&task_id)
cached_proofs(task_id) == {c \in zk_cache : c.task_id = task_id}

\* The cache after the new proof is stored: when it is full the entry under
\* cache.keys().next(), any key of the map, goes first.
caches_after(proof) ==
    LET without(evicted) == {c \in zk_cache : c.task_id # evicted}
        put(cache) == {c \in cache : c.task_id # proof.task_id} \cup {proof}
    IN  IF Cardinality(zk_cache) >= zk_config.cache_size /\ zk_cache # {}
        THEN {put(without(c.task_id)) : c \in zk_cache}
        ELSE {put(zk_cache)}

generate_proof(input) ==
    /\ IF zk_config.enable_cache /\ cached_proofs(input.task_id) # {}
       THEN /\ proof_result' = [input |-> input, cached |-> TRUE,
                                proof |-> CHOOSE c \in cached_proofs(input.task_id) : TRUE]
            /\ UNCHANGED <<zk_cache, pending>>
       ELSE /\ proof_result' = [input |-> input, cached |-> FALSE,
                                proof |-> generate_mock_proof(input)]
            /\ IF zk_config.enable_cache
               THEN zk_cache' \in caches_after(generate_mock_proof(input))
               ELSE UNCHANGED zk_cache
            /\ pending' = {s \in pending : s.task_id # input.task_id}
                              \cup {generate_mock_proof(input)}
    /\ UNCHANGED zk_config
    /\ UNCHANGED outside_zk

NextZk == \E input \in ProofInputs : generate_proof(input)

ZkInit ==
    /\ ProgramInit
    /\ CacheNew(DefaultCacheConfig)
    /\ KgNew(DefaultKgConfig)
    /\ RouterNew
    /\ \E config \in ZkConfigs : ZkNew(config)
    /\ VerificationNew(DefaultVerificationConfig)
    /\ IpfsNew(DefaultIpfsConfig)

SpecZk == ZkInit /\ [][NextZk]_vars

(***************************************************************************)
(* The claims.                                                             *)
(***************************************************************************)
Holders(t) == {k \in Keys : node[k].exists /\ node[k].active_task_id = t}

\* C1: in every reachable state, for every task id T (T # 0) at most one
\* reasoning node has active_task_id = T.
C1_AtMostOneHolder == \A t \in TaskIds : Cardinality(Holders(t)) <= 1

\* C2: a task is Finalized only if it was in status Verifying at some earlier
\* point of the run.
C2_FinalizedPassedVerifying ==
    \A t \in TaskIds :
        (task[t].exists /\ task[t].status = "Finalized") => hist[t].was_verifying

C2_Witness == \E t \in TaskIds : task[t].exists /\ task[t].status = "Finalized"

\* C3: for a MissionCritical task, a successful submit_verification leaves it in
\* ProofPending, finalize_task fails for every signer while it is in
\* ProofPending, and it enters ReadyForExecution from Verifying or ProofPending
\* only through a successful submit_proof.
C3_State ==
    \A t \in TaskIds :
        (task[t].exists /\ task[t].criticality = "MissionCritical") =>
            /\ (last.op = "submit_verification" /\ last.task = t)
                  => task[t].status = "ProofPending"
            /\ task[t].status = "ProofPending"
                  => \A a \in Keys : finalize_task_result(a, t) # "Ok"

C3_Step ==
    \A t \in TaskIds :
        (/\ task[t].exists
         /\ task[t].criticality = "MissionCritical"
         /\ task[t].status \in {"Verifying", "ProofPending"}
         /\ task'[t].status = "ReadyForExecution")
        => (last'.op = "submit_proof" /\ last'.task = t)

\* C3: the state part and the step part above, for every MissionCritical task:
\* submit_verification leaves ProofPending, finalize_task fails in ProofPending,
\* ReadyForExecution is entered from Verifying/ProofPending only by submit_proof.
C3_MissionCriticalNeedsProof == [](C3_State) /\ [][C3_Step]_vars

C3_Witness ==
    \E t \in TaskIds :
        /\ task[t].exists
        /\ task[t].criticality = "MissionCritical"
        /\ task[t].status = "ReadyForExecution"
        /\ last.op = "submit_proof"
        /\ \E c \in Keys : challenge[<<t, c>>].outcome = "Overturned"

\* C4: every change of a task's status is one of the listed transitions, made
\* by the listed operation.
ListedTransition(from, to, op, requires_proof) ==
    \/ from = "Pending" /\ to = "Reasoning" /\ op = "claim_task"
    \/ from = "Reasoning" /\ to = "Verifying" /\ op = "submit_reasoning"
    \/ from = "Verifying" /\ to = "ProofPending" /\ op = "submit_verification"
       /\ requires_proof
    \/ from = "Verifying" /\ to = "ReadyForExecution" /\ op = "submit_verification"
       /\ ~requires_proof
    \/ from = "ProofPending" /\ to = "ReadyForExecution" /\ op = "submit_proof"
    \/ from \in {"ReadyForExecution", "Finalized"} /\ to = "Disputed"
       /\ op = "challenge_result"
    \/ from = "ReadyForExecution" /\ to = "Finalized" /\ op = "finalize_task"
    \/ from = "Disputed" /\ to = "ReadyForExecution" /\ op = "resolve_challenge"
    \/ from = "Disputed" /\ to = "Reasoning" /\ op = "resolve_challenge"

C4_Step ==
    \A t \in TaskIds :
        (task[t].exists /\ task'[t].status # task[t].status)
        => ListedTransition(task[t].status, task'[t].status, last'.op,
                            task[t].requires_proof)

\* C4: no operation produces a status change outside the listed transitions.
C4_OnlyListedTransitions == [][C4_Step]_vars

\* C5 (as claimed): once a task is Finalized no operation changes its status.
C5_FinalizedTerminal ==
    [][\A t \in TaskIds :
          (task[t].exists /\ task[t].status = "Finalized")
          => task'[t].status = "Finalized"]_vars

\* C5 (amended): once a task is Finalized no operation executed at a time
\* strictly later than its challenge_period_end changes its status.
C5_FinalizedTerminalAfterWindow ==
    [][\A t \in TaskIds :
          (/\ task[t].exists
           /\ task[t].status = "Finalized"
           /\ now > task[t].challenge_period_end)
          => task'[t].status = "Finalized"]_vars

C5_Witness ==
    \E t \in TaskIds :
        /\ task[t].exists
        /\ task[t].status = "Finalized"
        /\ now > task[t].challenge_period_end

\* C6 (as claimed): created_ts + 1800 <= challenge_period_end <= created_ts + 7 days
\* in every reachable state of every task.
C6_WindowBounds ==
    \A t \in TaskIds :
        task[t].exists =>
            /\ task[t].created_ts + MIN_CHALLENGE_WINDOW <= task[t].challenge_period_end
            /\ task[t].challenge_period_end <= task[t].created_ts + MAX_CHALLENGE_WINDOW

\* C6 (amended): created_ts + 1800 <= challenge_period_end in every reachable
\* state of every task, and challenge_period_end <= created_ts + 7 days as long
\* as no submit_verification has succeeded on the task.
C6_WindowLowerBound ==
    \A t \in TaskIds :
        task[t].exists =>
            /\ task[t].created_ts + MIN_CHALLENGE_WINDOW <= task[t].challenge_period_end
            /\ hist[t].verifications = 0
                  => task[t].challenge_period_end
                        <= task[t].created_ts + MAX_CHALLENGE_WINDOW

C6_Witness ==
    \E t \in TaskIds :
        /\ task[t].exists
        /\ hist[t].verifications >= 2
        /\ task[t].dispute_count >= 1
        /\ task[t].challenge_period_end > task[t].created_ts + MAX_CHALLENGE_WINDOW

\* C7: every successful submit_verification executed at time now sets
\* challenge_period_end = max(now + 1800, now + W), W the challenge_window_secs
\* the task was submitted with.
C7_VerificationRestartsWindow ==
    \A t \in TaskIds :
        (last.op = "submit_verification" /\ last.task = t)
        => task[t].challenge_period_end
              = Max(now + MIN_CHALLENGE_WINDOW, now + hist[t].window)

\* C8: a task becomes Finalized only by finalize_task signed by its submitter,
\* from ReadyForExecution and at a time now >= challenge_period_end.
C8_Step ==
    \A t \in TaskIds :
        (task[t].exists /\ task[t].status # "Finalized" /\ task'[t].status = "Finalized")
        => /\ task[t].status = "ReadyForExecution"
           /\ now >= task[t].challenge_period_end
           /\ last'.op = "finalize_task"
           /\ last'.task = t
           /\ last'.signer = task[t].submitter

\* C8: finalize_task succeeds only from ReadyForExecution, at now >=
\* challenge_period_end, signed by the submitter; nothing else finalizes a task.
C8_FinalizeGuards == [][C8_Step]_vars

C8_Witness ==
    \E t \in TaskIds :
        /\ task[t].exists
        /\ task[t].status = "Finalized"
        /\ last.op = "finalize_task"
        /\ hist[t].verifications >= 1

\* C9: a challenge record is created, or dispute_count changes, only by a
\* challenge_result with stake > 0 on a ReadyForExecution or Finalized task at
\* now <= challenge_period_end; the task becomes Disputed, the record is
\* Pending/Pending and dispute_count grows by exactly 1, saturating at 255.
C9_Step ==
    \A t \in TaskIds :
        /\ \A c \in Keys :
              (task[t].exists /\ ~challenge[<<t, c>>].exists /\ challenge'[<<t, c>>].exists)
              => /\ last'.op = "challenge_result" /\ last'.signer = c /\ last'.task = t
                 /\ task[t].status \in {"ReadyForExecution", "Finalized"}
                 /\ now <= task[t].challenge_period_end
                 /\ challenge'[<<t, c>>].stake > 0
                 /\ challenge'[<<t, c>>].status = "Pending"
                 /\ challenge'[<<t, c>>].outcome = "Pending"
                 /\ task'[t].status = "Disputed"
                 /\ task'[t].dispute_count = Min(task[t].dispute_count + 1, U8_MAX)
        /\ (task[t].exists /\ task'[t].dispute_count # task[t].dispute_count)
              => /\ last'.op = "challenge_result" /\ last'.task = t
                 /\ ~challenge[<<t, last'.signer>>].exists
                 /\ challenge'[<<t, last'.signer>>].exists

\* C9: challenge_result succeeds only on a ReadyForExecution or Finalized task,
\* at now <= challenge_period_end, with stake > 0, and has the effects above.
C9_ChallengeGuards == [][C9_Step]_vars

C9_Witness ==
    \E t \in TaskIds :
        /\ task[t].exists
        /\ task[t].status = "Disputed"
        /\ task[t].dispute_count = 2
        /\ last.op = "challenge_result"

\* C10: resolve_challenge and slash_malicious_node succeed only when signed by
\* the authority that initialised the economy.
C10_DaoOnly ==
    (economy_config.exists /\ last.op \in {"resolve_challenge", "slash_malicious_node"})
    => last.signer = economy_config.authority

\* C11: a node's active_task_id becomes T only through a claim_task of that
\* node on T, executed while the node was Active, its stake_amount was >=
\* T.min_node_stake and its active_task_id was 0 or T.
C11_Step ==
    \A k \in Keys, t \in TaskIds :
        (node[k].active_task_id # t /\ node'[k].active_task_id = t)
        => /\ last'.op = "claim_task" /\ last'.signer = k /\ last'.task = t
           /\ node[k].exists /\ task[t].exists
           /\ node[k].status = "Active"
           /\ node[k].stake_amount >= task[t].min_node_stake
           /\ node[k].active_task_id \in {0, t}

\* C11: a claim that violates one of the three conditions fails; on a task that
\* is open to claims (Pending or Reasoning) the error is that of the first
\* violated condition: NodeInactive, InsufficientStake, NodeBusy.
C11_Errors ==
    \A k \in Keys, t \in TaskIds :
        (node[k].exists /\ task[t].exists) =>
            LET inactive == node[k].status # "Active"
                understaked == node[k].stake_amount < task[t].min_node_stake
                busy == node[k].active_task_id \notin {0, t}
                claimable == task[t].status \in {"Pending", "Reasoning"}
                r == claim_task_result(k, t)
            IN  /\ (inactive \/ understaked \/ busy)
                      => r \in {"NodeInactive", "TaskNotClaimable", "InsufficientStake",
                                "NodeBusy"}
                /\ inactive => r = "NodeInactive"
                /\ (claimable /\ ~inactive /\ understaked) => r = "InsufficientStake"
                /\ (claimable /\ ~inactive /\ ~understaked /\ busy) => r = "NodeBusy"

C12_State ==
    /\ \A p \in inference_result : p[2] \in hist[p[1]].claimed
    /\ \A k \in Keys, t \in TaskIds :
          (/\ node[k].exists
           /\ task[t].exists
           /\ (node[k].active_task_id # t \/ task[t].status # "Reasoning"))
          => submit_reasoning_result(k, t, HASH_MAX_LEN, HASH_MAX_LEN, CID_MAX_LEN) # "Ok"

C12_Step ==
    inference_result' # inference_result
    => /\ last'.op = "submit_reasoning"
       /\ inference_result' = inference_result \cup {<<last'.task, last'.signer>>}
       /\ node[last'.signer].active_task_id = last'.task
       /\ task[last'.task].status = "Reasoning"

Challenges(t) == {c \in Keys : challenge[<<t, c>>].exists}

C13_Step ==
    \A t \in TaskIds, c \in Keys :
        (challenge[<<t, c>>].exists /\ challenge'[<<t, c>>] # challenge[<<t, c>>])
        => /\ last'.op = "resolve_challenge" /\ last'.task = t
           /\ task[t].status = "Disputed"
           /\ challenge'[<<t, c>>].status = "Resolved"
           /\ challenge'[<<t, c>>].outcome = "Overturned"
                 => /\ task'[t].status = "Reasoning"
                    /\ task'[t].reasoning_result = 0
                    /\ task'[t].verification_score_bps = 0
                    /\ task'[t].dispute_count = task[t].dispute_count
                    /\ task'[t].dispute_count = Min(Cardinality(Challenges(t)), U8_MAX)
           /\ challenge'[<<t, c>>].outcome = "Upheld"
                 => /\ task'[t].status = "ReadyForExecution"
                    /\ task'[t].reasoning_result = task[t].reasoning_result
                    /\ task'[t].verification_score_bps = task[t].verification_score_bps

\* C13: resolve_challenge on a Disputed task with outcome Overturned sets the
\* status to Reasoning, empties reasoning_result, zeroes verification_score_bps
\* and leaves dispute_count (the number of challenges made so far) unchanged;
\* with outcome Upheld it sets the status to ReadyForExecution and leaves
\* reasoning_result and verification_score_bps unchanged; in both cases the
\* challenge record becomes Resolved with that outcome.
C13_ResolveEffects == [][C13_Step]_vars

C13_Witness ==
    \E t \in TaskIds :
        /\ last.op = "resolve_challenge" /\ last.task = t
        /\ task[t].status = "Reasoning"
        /\ task[t].dispute_count = 2
        /\ \E c \in Keys : challenge[<<t, c>>].outcome = "Upheld"
        /\ \E c \in Keys : challenge[<<t, c>>].outcome = "Overturned"

C16_Step ==
    \A d \in Keys, o \in Keys, a \in SlashAmounts, suspend \in BOOLEAN :
        slash_malicious_node(d, o, a, suspend)
        => /\ a <= stake_vault[o].lamports
           /\ a <= node[o].stake_amount
           /\ node'[o].stake_amount = node[o].stake_amount - a
           /\ stake_vault'[o].total_stake = stake_vault[o].total_stake - a
           /\ node'[o].pending_slash_amount = node[o].pending_slash_amount + a
           /\ reward_vault'.total_accrued = reward_vault.total_accrued + a
           /\ economy_config'.slash_pool = economy_config.slash_pool + a
           /\ stake_vault'[o].lamports = stake_vault[o].lamports - a
           /\ reward_vault'.lamports = reward_vault.lamports + a
           /\ suspend => node'[o].status = "Suspended"
           /\ ~suspend => node'[o].status = node[o].status

\* C16: a successful slash_malicious_node(node, a, suspend) requires a <= the
\* stake vault's lamports and a <= node.stake_amount, takes exactly a from
\* node.stake_amount and stake_vault.total_stake, adds exactly a to
\* pending_slash_amount, reward_vault.total_accrued and economy.slash_pool,
\* moves exactly a lamports from the stake vault to the reward vault, and makes
\* the node Suspended when suspend is true, leaving its status otherwise.
C16_SlashEffects == [][C16_Step]_vars

C16_Witness ==
    \E o \in Keys :
        /\ last.op = "slash_malicious_node"
        /\ node[o].status = "Suspended"
        /\ node[o].pending_slash_amount = 2
        /\ economy_config.slash_pool = 2

\* C18: for every node that has never been slashed, stake_amount >=
\* dynamic_min_stake in every reachable state.
C18_StakeCoversMinimum ==
    \A k \in Keys :
        (node[k].exists /\ node[k].pending_slash_amount = 0)
        => node[k].stake_amount >= node[k].dynamic_min_stake

RECURSIVE SumPendingRewards(_)
SumPendingRewards(ks) ==
    IF ks = {} THEN 0
    ELSE LET k == CHOOSE x \in ks : TRUE
         IN  node[k].pending_rewards + SumPendingRewards(ks \ {k})

\* C15: in every reachable state the sum over all nodes of pending_rewards plus
\* reward_vault.total_distributed equals reward_vault.total_accrued minus
\* economy.slash_pool.
C15_RewardConservation ==
    reward_vault.exists
    => SumPendingRewards(Keys) + reward_vault.total_distributed
          = reward_vault.total_accrued - economy_config.slash_pool

C17_Step ==
    \A p \in Keys, t \in TaskIds, o \in Keys, a \in QueueAmounts :
        queue_reward_settlement(p, t, o, a)
        => /\ task[t].status \in {"ReadyForExecution", "Finalized"}
           /\ task[t].stake_pool >= a
           /\ a > 0
           /\ task'[t].stake_pool = task[t].stake_pool - a
           /\ reward_vault'.total_accrued = reward_vault.total_accrued + a
           /\ node'[o].pending_rewards
                 = node[o].pending_rewards
                   + ((a * Max(BPS_DENOMINATOR,
                               node[o].reputation_score_bps
                               + node[o].dynamic_multiplier_bps))
                      \div BPS_DENOMINATOR)

C17_State == \A t \in TaskIds : hist[t].queued <= hist[t].stake_pool

\* C17: a successful queue_reward_settlement(task, amount) requires status
\* ReadyForExecution or Finalized and stake_pool >= amount > 0, takes amount from
\* stake_pool, adds it to reward_vault.total_accrued and credits the node
\* floor(amount * max(10000, reputation + multiplier) / 10000); the total queued
\* against a task never exceeds the stake_pool it was submitted with.
C17_QueueEffects == [](C17_State) /\ [][C17_Step]_vars

C17_Witness ==
    \E t \in TaskIds :
        /\ last.op = "queue_reward_settlement" /\ last.task = t
        /\ task[t].status = "Finalized"
        /\ hist[t].queued = hist[t].stake_pool
        /\ hist[t].queued = 3
        /\ \E k \in Keys : node[k].dynamic_multiplier_bps = 0 /\ node[k].pending_rewards > 0

C19_NoExpiredHit ==
    lookup_result.hit => ~(lookup_result.at > lookup_result.entry.expires_at)

C19_Witness ==
    /\ ~lookup_result.hit
    /\ \E e \in local_cache :
          /\ e.query_hash = compute_query_hash(lookup_result.query)
          /\ lookup_result.at > e.expires_at
    /\ \E e \in redis_store :
          /\ compute_similarity(lookup_result.query, e.query) >= SIMILARITY_THRESHOLD_PCT
          /\ lookup_result.at > e.expires_at

\* C20: a lookup executed at exactly now == expires_at of the only matching
\* entry returns a miss.
C20_ExactExpiryMisses ==
    \A e \in lookup_result.matching :
        (lookup_result.matching = {e} /\ lookup_result.at = e.expires_at)
        => ~lookup_result.hit

\* C21: when the distributed layer is connected but its write fails during
\* store, store still returns success and the entry is in the local layer.
C21_StoreSwallowsRedisFailure ==
    (store_result.redis_write = "Err" /\ cache_config.enable_local_cache)
    => (store_result.result = "Ok" /\ store_result.in_local)

\* C22: the auto-created entities of an add_triplet are never present while its
\* triplet is absent, neither between its steps nor after it returned an error.
C22_AddTripletAtomic ==
    add_triplet_call.created # {} => add_triplet_call.triplet \in triplets

\* C23: verify_fact(T) right after a successful add_triplet(T) with source
\* HumanVerified returns supported with confidence >= 8000 bps.
C23_VerifiedAfterAdd ==
    (fact_verification.after_add /\ fact_verification.claim.source = "HumanVerified")
    => (fact_verification.supported /\ fact_verification.confidence_bps >= 8000)

\* C24: a claim with a transitive predicate, two stored hops and no direct
\* match is supported by the two hops, with the mean of their confidences.
C24_TransitiveSupport ==
    (fact_verification.paths # {} /\ fact_verification.direct = {})
    => /\ fact_verification.supported
       /\ fact_verification.supporting \in fact_verification.paths
       /\ 2 * fact_verification.confidence_bps
             = sum_confidence(fact_verification.supporting)

\* C25: merkle_root() is the same in whatever order the triplets were inserted
\* and are iterated, and is 32 zero bytes for a graph without triplets.
C25_MerkleRootOrderIndependent ==
    /\ Cardinality(merkle_roots.roots) <= 1
    /\ (triplets = {} /\ merkle_roots.roots # {}) => merkle_roots.roots = {ZERO_HASH}

C25_Witness ==
    /\ merkle_roots.reordered
    /\ Cardinality(triplets) >= 3
    /\ ZERO_HASH \notin merkle_roots.roots

\* C26: route computes bucket = min(3, floor(complexity / 2500)) and returns the
\* tier the routing table lists for (workflow, bucket) whenever it is available.
C26_RouteByBucket ==
    LET bucket == Min(3, routing_decision.complexity_score \div 2500)
        listed == strategy_matrix(routing_decision.workflow, bucket)
    IN  (routing_decision.tier # "none" /\ available(routing_decision.status, listed))
        => routing_decision.tier = listed

\* C27: verify passes only with final_score_bps >= 7000 and no hallucination
\* detected; a response with an uncertainty phrase, a self-contradiction marker
\* or an overconfidence claim does not pass and leaves the knowledge graph as it
\* was; the graph is modified only when the verification passed.
C27_PassedOnlyVerified ==
    /\ verification_result.passed
       => (verification_result.final_score_bps >= 7000
           /\ ~verification_result.hallucination_detected)
    /\ hallucination_reasons(verification_result.fragments, verification_config) # {}
       => (~verification_result.passed /\ ~verification_result.kg_modified)
    /\ verification_result.kg_modified => verification_result.passed

\* C27 as it holds: with hallucination detection enabled and min_pass_score at
\* its default of 7000.
C27_PassedOnlyVerifiedByDefault ==
    (verification_config.enable_hallucination_detection
     /\ verification_config.min_pass_score = 7000)
    => C27_PassedOnlyVerified

C27_Witness ==
    /\ verification_config = DefaultVerificationConfig
    /\ hallucination_reasons(verification_result.fragments, verification_config) # {}
    /\ verification_result.extracted_triplets # <<>>
    /\ verification_result.final_score_bps < 7000
    /\ ~verification_result.passed
    /\ \E t \in triplets : t.source = "LLMExtraction"

\* C28: retrieve_bytes(upload_bytes(b).cid) returns exactly b for every b up to
\* the maximum size: stored uncompressed, chunked, or starting with 0x1f 0x8b.
C28_RoundTrip ==
    \A u \in uploaded :
        (retrieved.cid = u.cid /\ retrieved.result \in {"Ok", "Err"})
        => (retrieved.result = "Ok" /\ retrieved.data = u.data)

\* C29: a task that is ReadyForExecution, Disputed or Finalized has had a
\* successful submit_verification since it most recently entered Reasoning.
C29_VerifiedBeforeExecutable ==
    \A t \in TaskIds :
        (task[t].exists
         /\ task[t].status \in {"ReadyForExecution", "Disputed", "Finalized"})
        => hist[t].verified

C31_DisputedHasOpenChallenge ==
    \A t \in TaskIds :
        (task[t].exists /\ task[t].status = "Disputed")
        => \E c \in Keys :
              /\ challenge[<<t, c>>].exists
              /\ challenge[<<t, c>>].status \in {"Pending", "UnderReview"}

\* C32: for each pair (task T, node N) submit_reasoning succeeds at most once:
\* the set of InferenceResult records only grows, a pair in it is refused, and
\* a task goes from Reasoning to Verifying only through a submit_reasoning of
\* a node that had no InferenceResult for it.
C32_ReasoningOncePerNode ==
    /\ [](\A p \in inference_result :
            submit_reasoning_result(p[2], p[1], HASH_MAX_LEN, HASH_MAX_LEN, CID_MAX_LEN)
               = "AccountAlreadyInUse")
    /\ [][/\ inference_result \subseteq inference_result'
          /\ \A t \in TaskIds :
                (task[t].exists /\ task[t].status = "Reasoning"
                 /\ task'[t].status = "Verifying")
                => /\ last'.op = "submit_reasoning" /\ last'.task = t
                   /\ <<t, last'.signer>> \notin inference_result
                   /\ inference_result' = inference_result \cup {<<t, last'.signer>>}]_vars

\* After an Overturned dispute a second node has taken the task to Verifying
\* while the first node, still assigned to it, is refused.
C32_Witness ==
    \E t \in TaskIds, k \in Keys, c \in Keys :
        /\ challenge[<<t, c>>].exists /\ challenge[<<t, c>>].outcome = "Overturned"
        /\ task[t].status = "Verifying"
        /\ last = [op |-> "submit_reasoning", signer |-> k, task |-> t, result |-> "Ok"]
        /\ \E j \in Keys \ {k} : <<t, j>> \in inference_result /\ node[j].active_task_id = t

\* C33: in every reachable state a node's stake_amount equals the total_stake
\* of its stake vault.
C33_StakeBackedByVault ==
    \A k \in Keys : node[k].exists => node[k].stake_amount = stake_vault[k].total_stake

\* C34: while a node holds a claimed task that is not yet Finalized, its
\* stake_amount stays at or above the task's min_node_stake.
C34_HolderKeepsTaskStake ==
    \A k \in Keys, t \in TaskIds :
        (/\ node[k].exists /\ node[k].active_task_id = t
         /\ task[t].exists /\ task[t].status # "Finalized")
        => node[k].stake_amount >= task[t].min_node_stake

\* C35: queue_reward_settlement for task T increases pending_rewards only of a
\* node that has an InferenceResult for T.
C35_RewardOnlyForWork ==
    [][\A k \in Keys :
          (node[k].exists /\ node'[k].pending_rewards > node[k].pending_rewards)
          => /\ last'.op = "queue_reward_settlement"
             /\ <<last'.task, k>> \in inference_result]_vars

\* C36: a node whose status is Suspended cannot advance any task: neither
\* claim_task nor submit_reasoning signed by it succeeds.
C36_SuspendedCannotAdvance ==
    \A k \in Keys, t \in TaskIds :
        (node[k].exists /\ node[k].status = "Suspended")
        => /\ claim_task_result(k, t) # "Ok"
           /\ submit_reasoning_result(k, t, HASH_MAX_LEN, HASH_MAX_LEN, CID_MAX_LEN) # "Ok"

\* C37: for every local_cache_size >= 1 the local cache layer holds at most
\* local_cache_size entries after any sequence of stores and promoting lookups.
C37_LocalCacheBounded ==
    cache_config.local_cache_size >= 1
    => Cardinality(local_cache) <= cache_config.local_cache_size

\* The entries a step drops from the local layer without replacing them.
Evicted == {e \in local_cache : \A n \in local_cache' : n.query_hash # e.query_hash}

\* C38: an eviction pass runs only when the layer holds at least
\* local_cache_size entries, removes expired entries before any live one, live
\* ones oldest first, and in total no more than 10% of local_cache_size.
C38_EvictionPass ==
    [][(store_result' # store_result \/ lookup_result' # lookup_result)
       => /\ Evicted # {} => Cardinality(local_cache) >= cache_config.local_cache_size
          /\ 10 * Cardinality(Evicted) <= cache_config.local_cache_size
          /\ \A e \in Evicted :
                ~is_expired(e, utc_now)
                => \A k \in local_cache \cap local_cache' :
                      ~is_expired(k, utc_now) /\ e.created_at <= k.created_at]_vars

\* C39: the proof returned by generate_proof(input) has task_id = input.task_id
\* and public_inputs = prompt_hash, output_hash, timestamp (8 bytes LE) and
\* verification_score (2 bytes LE) of that same input, also on a later call
\* for the same task id with another output hash or score.
C39_ProofOfItsInput ==
    proof_result # NoProofResult
    => /\ proof_result.proof.task_id = proof_result.input.task_id
       /\ proof_result.proof.public_inputs
             = proof_result.input.prompt_hash \o proof_result.input.output_hash
                  \o to_le_bytes(proof_result.input.timestamp, 8)
                  \o to_le_bytes(proof_result.input.verification_score, 2)

\* The uncertainty phrases found in the response when letter case is ignored.
UncertainIgnoringCase(response) ==
    {p \in UNCERTAIN_PHRASES :
        \E f \in response.fragments : contains(to_lowercase(f), to_lowercase(p))}

\* C40: estimate_confidence(tier, response) = clamp(base(tier)
\* - 1000*[len(response) < 50] - 500*k, 0, 10000), k counting the uncertainty
\* phrases in the response matched case-insensitively.
C40_ConfidenceFormula ==
    confidence_estimate # NoConfidenceEstimate
    => LET tier == confidence_estimate.tier
           response == confidence_estimate.response
           base == CASE tier = "Local7B" -> 6000
                     [] tier = "Local13B" -> 7500
                     [] tier = "Local70B" -> 8500
                     [] tier = "CloudAPI" -> 9500
           k == Cardinality(UncertainIgnoringCase(response))
           short == IF response.len < 50 THEN 1 ELSE 0
       IN  confidence_estimate.confidence
              = Min(Max(base - 1000 * short - 500 * k, 0), 10000)
====
